---- MODULE Spec2Model ----
(***************************************************************************)
(* Debate orchestration pipeline of eklavya-council: the /api/council      *)
(* route, the streaming round orchestrator (runCouncilStream), the provider *)
(* adapter with its retry loop (callProvider / withRetry) and the synthesis *)
(* extractor.                                                               *)
(*                                                                         *)
(* One action is one synchronous continuation of the JavaScript code: it   *)
(* runs from the settling of an awaited backend attempt to the next await.  *)
(* The module code is an ES module, hence strict-mode JavaScript.           *)
(***************************************************************************)
EXTENDS Integers, Sequences, FiniteSets, TLC

\* ---------------------------------------------------------------- bounds
\* Council c of the modelled catalog has c participants, c in 1..MaxPersonas.
MaxPersonas == 3
\* A request carries rounds in -1..MaxRoundsInput (0 is falsy: no override).
MaxRoundsInput == 4
\* Length of the noise put before and after a payload in generated texts.
MaxNoiseLen == 2
\* A generated text reaches the token callback as StreamLen tokens.
StreamLen == 2
\* Longest string given to a stand-alone run of sanitiseField.
MaxFieldLen == 4

\* ------------------------------------------------------ program constants
MAX_RETRIES == 2
MIN_ROUNDS == 1
MAX_ROUNDS == 3
DECLARED_ROUNDS == 2
NAME_CAP == 100
ROLE_CAP == 150
STYLE_CAP == 500
BIAS_CAP == 300
EXPERTISE_CAP == 80
EXPERTISE_MAX == 10

Sessions == {1, 2}
Runs == {1, 2}
CouncilIds == 1 .. MaxPersonas
PersonaIds == 1 .. MaxPersonas
RoundsInputs == (-1) .. MaxRoundsInput

Range(f) == {f[i] : i \in DOMAIN f}

Min(a, b) == IF a < b THEN a ELSE b
Max(a, b) == IF a > b THEN a ELSE b

\* JavaScript numbers: the integers, and NaN, written as an integer no
\* computation of the program yields.  NonNumeric stands for a rounds value
\* of the request body that is a non-empty string holding no number.
NaN == -1000
NonNumeric == -1001
\* a <= b and a < b: false when either side is NaN.
LessEq(a, b) == a # NaN /\ b # NaN /\ a <= b
Less(a, b) == a # NaN /\ b # NaN /\ a < b

\* --------------------------------------------------------------- catalog
\* The id of a user-defined persona whose name is Moderator.
ModeratorNamesake == MaxPersonas + 1

\* A persona's display name (persona.display_name ?? persona.name).
DisplayName(p) ==
  IF p = ModeratorNamesake THEN "Moderator" ELSE "P" \o ToString(p)

\* The module-level council table: one object per council id, shared by every
\* request served by the process.
BUILTIN_COUNCILS ==
  [c \in CouncilIds |-> [persona_ids |-> [i \in 1 .. c |-> i],
                         rounds |-> DECLARED_ROUNDS]]

\* An id that names no persona, and getPersona(id): the persona, or a throw
\* for an unknown id.
UnknownPersona == 0
getPersona(id) ==
  IF id \in PersonaIds \cup {ModeratorNamesake} THEN id ELSE UnknownPersona

\* contrarian_level of the personas, in hundredths: 1.0, 0.2, 0.5, 0.8, ...
ContrarianLevels == << 100, 20, 50, 80, 40, 60 >>

\* The persona table: built-in personas carry no provider override, the
\* user-defined persona 2 is pinned to openai; persona 1 carries a model
\* override.
NoProvider == "none"
NoModel == "undefined"
PERSONAS ==
  [p \in PersonaIds \cup {ModeratorNamesake} |->
     [provider |-> IF p = 2 THEN "openai" ELSE NoProvider,
      model |-> IF p = 1 THEN "custom-model" ELSE NoModel,
      contrarian_level |->
        ContrarianLevels[((p - 1) % Len(ContrarianLevels)) + 1]]]

\* A council id that names no council, and the user-defined councils that
\* loadUserCouncils() reads afresh on every lookup: one council that lists a
\* persona id that does not exist, and one whose first participant is the
\* persona named Moderator.
UnknownCouncil == 0
UserCouncil == MaxPersonas + 1
NamesakeCouncil == MaxPersonas + 2
USER_COUNCILS ==
  [c \in {UserCouncil, NamesakeCouncil} |->
     [persona_ids |-> IF c = UserCouncil THEN << 1, UnknownPersona >>
                      ELSE << ModeratorNamesake, 1 >>,
      rounds |-> DECLARED_ROUNDS]]

\* --------------------------------------------------------- configuration
ProviderOrder == << "anthropic", "openai", "google" >>
ProviderNames == Range(ProviderOrder)

\* An EklavyaConfig: the providers that have an api_key, the preferred
\* provider and the stream flag.
Config(keys, pref, stream) ==
  [api_keys |-> keys, default_provider |-> pref, stream |-> stream]

hasProvider(cfg, provider) == provider \in cfg.api_keys

\* getActiveProvider: the preferred provider when it has a key, else the
\* first provider of the list that has one, else a throw (NoProvider).
getActiveProvider(cfg) ==
  IF hasProvider(cfg, cfg.default_provider) THEN cfg.default_provider
  ELSE LET keyed == {i \in DOMAIN ProviderOrder :
                       hasProvider(cfg, ProviderOrder[i])}
       IN IF keyed = {} THEN NoProvider
          ELSE ProviderOrder[CHOOSE i \in keyed : \A k \in keyed : i <= k]

DefaultConfig == Config(ProviderNames, "anthropic", TRUE)

\* Errors thrown before any backend attempt is made.
CouncilNotFound == "council not found"
PersonaNotFound == "persona not found"
NoApiKey == "no api key configured"
NoApiKeyForProvider == "no api key configured for provider"
ConfigErrors ==
  {CouncilNotFound, PersonaNotFound, NoApiKey, NoApiKeyForProvider}

\* ------------------------------------------------------- stream frames
\* A frame of the response stream.  A token frame carries the text position
\* it stands for: token number part of a text generated by the session's
\* call number call, which is the text the call returns (kept) or the text
\* of an attempt that failed.
Frame(type, speaker, round, n, kept, j) ==
  [type |-> type, speaker |-> speaker, round |-> round, call |-> n,
   kept |-> kept, part |-> j]
SpeakerStart(speaker, round) ==
  Frame("speaker_start", speaker, round, 0, FALSE, 0)
RoundStart(round) == Frame("round_start", "", round, 0, FALSE, 0)
Token(round, n, kept, j) == Frame("token", "", round, n, kept, j)
SynthesisChunk == Frame("synthesis", "", 0, 0, FALSE, 0)
ErrorFrame == Frame("error", "", 0, 0, FALSE, 0)
DoneFrame == Frame("[DONE]", "", 0, 0, FALSE, 0)

\* ---------------------------------------------------------- retry policy
\* Thrown backend errors, named by their lower-cased message.
Errors == {"529 overloaded_error", "429 rate_limit_error",
           "request timeout", "read econnreset", "401 authentication_error",
           "400 invalid_request_error"}
\* The error a closed stream controller raises inside the chunk callback.
ControllerClosed == "invalid state: controller is already closed"
NoError == ""

\* msg.includes(marker) on the lower-cased message.
MsgIncludes(msg, marker) ==
  CASE marker = "overload"   -> msg = "529 overloaded_error"
    [] marker = "529"        -> msg = "529 overloaded_error"
    [] marker = "rate_limit" -> msg = "429 rate_limit_error"
    [] marker = "429"        -> msg = "429 rate_limit_error"
    [] marker = "timeout"    -> msg = "request timeout"
    [] marker = "econnreset" -> msg = "read econnreset"
    [] OTHER                 -> FALSE

isRetryable(err) ==
  \/ MsgIncludes(err, "overload") \/ MsgIncludes(err, "529")
  \/ MsgIncludes(err, "rate_limit") \/ MsgIncludes(err, "429")
  \/ MsgIncludes(err, "timeout") \/ MsgIncludes(err, "econnreset")

\* A retry loop that does not classify errors.
RetryDecisionUnclassified(attempt, err) ==
  IF attempt < MAX_RETRIES THEN "retry" ELSE "throw"

\* withRetry's catch block for a failed attempt number attempt (0-based):
\* "retry" = sleep and loop, "throw" = rethrow now or fall out of the loop
\* and throw lastError.
RetryDecision(attempt, err) ==
  IF attempt < MAX_RETRIES /\ isRetryable(err) THEN "retry" ELSE "throw"

\* ------------------------------------------------------ contrarian level
\* Levels are in hundredths and temperatures in thousandths.
\* contrarianTemperature: 0.6 + level * 0.4
contrarianTemperature(level) == 600 + level * 4

\* A mapping that cools the most contrarian personas down.
contrarianInstructionInverted(level) ==
  IF level >= 80 THEN "common ground"
  ELSE IF level >= 50 THEN "push back"
  ELSE "challenge aggressively"

contrarianInstruction(level) ==
  IF level >= 80 THEN "challenge aggressively"
  ELSE IF level >= 50 THEN "push back"
  ELSE "common ground"

\* ------------------------------------------------------- prompt builders
Part(tag, n, speaker, content) ==
  [tag |-> tag, n |-> n, speaker |-> speaker, content |-> content]

Msg(speaker, round, content) ==
  [speaker |-> speaker, round |-> round, content |-> content]

IsLiveTurn(m, round) == m.round = round /\ m.speaker # "Moderator"

\* transcript.filter(m => m.round === round && m.speaker !== 'Moderator')
RoundMessages(tr, round) == SelectSeq(tr, LAMBDA m : IsLiveTurn(m, round))

TurnParts(msgs) ==
  [i \in 1 .. Len(msgs) |-> Part("turn", 0, msgs[i].speaker, msgs[i].content)]

\* The persona prompt of the first revision of orchestrator.ts: the whole
\* transcript so far under CONVERSATION SO FAR.
buildPersonaUserPromptFullHistory(persona, fullTranscript, sums, round) ==
  << Part("TOPIC", 0, "", 0) >>
  \o (IF Len(fullTranscript) > 0
      THEN << Part("CONVERSATION SO FAR", 0, "", 0) >> \o TurnParts(fullTranscript)
      ELSE << >>)
  \o << Part("ROUND", round, DisplayName(persona), 0) >>

buildPersonaUserPrompt(persona, fullTranscript, sums, round) ==
  LET currentRoundMessages == RoundMessages(fullTranscript, round)
      openings == SelectSeq(fullTranscript, LAMBDA m : m.round = 0)
      context ==
        IF round = 1
        THEN IF Len(openings) > 0
             THEN << Part("MODERATOR FRAMING", 0, "", openings[1].content) >>
             ELSE << >>
        ELSE IF Len(sums) > 0
             THEN << Part("PRIOR ROUND SUMMARIES", 0, "", 0) >>
                  \o [i \in 1 .. Len(sums) |-> Part("Round", i, "", sums[i])]
             ELSE << >>
      live ==
        IF Len(currentRoundMessages) > 0
        THEN << Part("THIS ROUND SO FAR", 0, "", 0) >>
             \o TurnParts(currentRoundMessages)
        ELSE << >>
  IN << Part("TOPIC", 0, "", 0) >> \o context \o live
     \o << Part("ROUND", round,
                IF round = 1 THEN DisplayName(persona) ELSE "", 0) >>

\* The moderator's opening prompt: question, focus and the attendee names.
buildModeratorOpenPrompt(ps) ==
  << Part("Open this council session", 0, "", 0) >>
  \o [i \in 1 .. Len(ps) |-> Part("attendee", 0, DisplayName(ps[i]), 0)]

buildModeratorSummaryPrompt(tr, round) ==
  << Part("Topic", 0, "", 0), Part("Round", round, "", 0) >>
  \o TurnParts(RoundMessages(tr, round))
  \o << Part("Summarise", round + 1, "", 0) >>

buildSynthesisPrompt(tr) ==
  << Part("Question", 0, "", 0), Part("Transcript", 0, "", 0) >>
  \o TurnParts(SelectSeq(tr, LAMBDA m : m.speaker # "Moderator" \/ m.round = 0))

\* --------------------------------------------------- synthesis extractor
\* A JavaScript value: its typeof/shape tag and a printable payload.
JV(t, v) == [t |-> t, v |-> v]
Undef == JV("undefined", "")
Str(s) == JV("string", s)
Arr(s) == JV("array", s)
Num(s) == JV("number", s)

ArrayIsArray(x) == x.t = "array"
Falsy(x) ==
  \/ x.t \in {"undefined", "null"}
  \/ x.t = "string" /\ x.v = ""
  \/ x.t = "number" /\ x.v = "0"

Synth(d, ds, oq, a, c, sm) ==
  [decisions |-> d, dissent |-> ds, open_questions |-> oq, actions |-> a,
   confidence |-> c, summary |-> sm]

\* The object literal {} : every property reads as undefined.
EmptyObject == Synth(Undef, Undef, Undef, Undef, Undef, Undef)

\* Generated text is a sequence of tokens.  A "members" token stands for a
\* well-formed, comma-separated list of JSON members and carries the object
\* those members denote.
Tok(t) == [t |-> t, b |-> EmptyObject]
Members(obj) == [t |-> "members", b |-> obj]

RECURSIVE DropLeadingWs(_)
DropLeadingWs(txt) ==
  IF Len(txt) > 0 /\ txt[1].t = "ws" THEN DropLeadingWs(Tail(txt)) ELSE txt

RECURSIVE DropTrailingWs(_)
DropTrailingWs(txt) ==
  IF Len(txt) > 0 /\ txt[Len(txt)].t = "ws"
  THEN DropTrailingWs(SubSeq(txt, 1, Len(txt) - 1))
  ELSE txt

\* The first replace: a code fence at the very start of the text, an optional
\* 'json' right after it, and the whitespace that follows.
StripLeadingFence(txt) ==
  IF Len(txt) > 0 /\ txt[1].t = "fence"
  THEN LET rest == Tail(txt)
       IN DropLeadingWs(IF Len(rest) > 0 /\ rest[1].t = "json"
                        THEN Tail(rest) ELSE rest)
  ELSE txt

\* The second replace: a code fence at the very end of the text and the
\* whitespace before it.
StripTrailingFence(txt) ==
  IF Len(txt) > 0 /\ txt[Len(txt)].t = "fence"
  THEN DropTrailingWs(SubSeq(txt, 1, Len(txt) - 1))
  ELSE txt

\* .trim()
Trim(txt) == DropTrailingWs(DropLeadingWs(txt))

\* synthText.match(/\{[\s\S]*\}/): from the first "{" to the last "}".
MatchBraces(txt) ==
  LET opens == {i \in 1 .. Len(txt) : txt[i].t = "{"}
      first == IF opens = {} THEN 0
               ELSE CHOOSE i \in opens : \A k \in opens : i <= k
      closes == {j \in 1 .. Len(txt) : txt[j].t = "}" /\ j > first}
      last == IF closes = {} THEN 0
              ELSE CHOOSE j \in closes : \A k \in closes : j >= k
  IN IF first > 0 /\ last > 0 THEN SubSeq(txt, first, last) ELSE txt

\* JSON.parse: whitespace between tokens is insignificant; anything but one
\* JSON value is a SyntaxError.
JSONParse(txt) ==
  LET core == SelectSeq(txt, LAMBDA k : k.t # "ws")
      types == [i \in 1 .. Len(core) |-> core[i].t]
  IN CASE types = << "{", "}" >> ->
            [ok |-> TRUE, kind |-> "object", obj |-> EmptyObject]
       [] types = << "{", "members", "}" >> ->
            [ok |-> TRUE, kind |-> "object", obj |-> core[2].b]
       [] types = << "null" >> ->
            [ok |-> TRUE, kind |-> "null", obj |-> EmptyObject]
       [] types = << "42" >> ->
            [ok |-> TRUE, kind |-> "number", obj |-> EmptyObject]
       [] OTHER ->
            [ok |-> FALSE, kind |-> "SyntaxError", obj |-> EmptyObject]

\* The candidate payload handed to JSON.parse.
Candidate(text) == MatchBraces(Trim(StripTrailingFence(StripLeadingFence(text))))

\* The normalisation inside the try block, on an object.
Normalise(o) ==
  Synth(IF ArrayIsArray(o.decisions) THEN o.decisions ELSE Arr(""),
        IF ArrayIsArray(o.dissent) THEN o.dissent ELSE Arr(""),
        IF ArrayIsArray(o.open_questions) THEN o.open_questions ELSE Arr(""),
        IF ArrayIsArray(o.actions) THEN o.actions ELSE Arr(""),
        IF Falsy(o.confidence) THEN Str("medium") ELSE o.confidence,
        IF Falsy(o.summary) THEN Str("See transcript.") ELSE o.summary)

\* The fallback of the first revision of runCouncil: it reads like a result.
FallbackSynthesisFirstRevision ==
  Synth(Arr("Council completed"), Arr(""), Arr(""), Arr("Review transcript"),
        Str("medium"), Str("Council session completed."))

\* The record built in the catch block.
FallbackSynthesis ==
  Synth(Arr(""), Arr(""), Arr(""), Arr(""), Str("low"),
        Str("[Synthesis could not be parsed]"))

\* The try block: JSON.parse raises a SyntaxError; reading a property of null
\* and (strict mode) assigning one on a primitive raise a TypeError.
TryBlock(text) ==
  LET parsed == JSONParse(Candidate(text))
  IN CASE ~parsed.ok ->
            [exception |-> "SyntaxError", value |-> EmptyObject]
       [] parsed.ok /\ parsed.kind # "object" ->
            [exception |-> "TypeError", value |-> EmptyObject]
       [] OTHER ->
            [exception |-> "none", value |-> Normalise(parsed.obj)]

\* The catch block takes every exception of the try block.
CatchBlock(tb) ==
  IF tb.exception # "none"
  THEN [raised |-> "none", synthesis |-> FallbackSynthesis]
  ELSE [raised |-> "none", synthesis |-> tb.value]

\* Extraction as a whole: the exception that escapes to the caller, if any,
\* and the decision record.
ExtractSynthesis(text) == CatchBlock(TryBlock(text))

\* ------------------------------------------------------ generated texts
Payloads ==
  {Synth(d, ds, oq, a, c, sm) :
     d \in {Undef, Arr("x"), Str("x")}, ds \in {Undef, Arr("x"), Str("x")},
     oq \in {Undef, Arr("y")}, a \in {Undef, Arr("y")},
     c \in {Undef, Str(""), Str("low"), Str("high"), Str("certain")},
     sm \in {Undef, Str("All agreed."), Num("42")}}

SeqsUpTo(S, n) == UNION {[1 .. k -> S] : k \in 0 .. n}

OnlyDecisions == Synth(Arr("x"), Undef, Undef, Undef, Undef, Undef)

\* A decision object with every field of the schema.
FullDecision == Synth(Arr("x"), Arr("x"), Arr("y"), Arr("y"), Str("high"),
                      Str("All agreed."))

Cores ==
  { << >>, << Tok("null") >>, << Tok("42") >>, << Tok("{"), Tok("}") >>,
    << Tok("{"), Members(OnlyDecisions), Tok("}") >>,
    << Tok("{"), Members(FullDecision), Tok("}") >>,
    << Tok("{"), Tok("prose"), Tok("}") >> }

Framed(obj) ==
  { << Tok("{"), Members(obj), Tok("}") >>,
    << Tok("fence"), Tok("json"), Tok("ws"), Tok("{"), Members(obj), Tok("}"),
       Tok("ws"), Tok("fence") >>,
    << Tok("prose"), Tok("fence"), Tok("json"), Tok("ws"), Tok("{"),
       Members(obj), Tok("}"), Tok("ws"), Tok("fence") >> }

\* Prose, then a fenced json block holding only decisions = [x].
ScenarioText == << Tok("prose"), Tok("fence"), Tok("json"), Tok("ws"), Tok("{"),
                   Members(OnlyDecisions), Tok("}"), Tok("ws"), Tok("fence") >>

Texts ==
  {pre \o core \o post :
     pre \in SeqsUpTo({Tok("fence"), Tok("json"), Tok("ws"), Tok("prose"),
                       Tok("{"), Tok("}")}, MaxNoiseLen),
     core \in Cores,
     post \in SeqsUpTo({Tok("fence"), Tok("ws"), Tok("prose"), Tok("}")},
                       MaxNoiseLen)}
  \cup UNION {Framed(obj) : obj \in Payloads}

\* The texts a synthesis call of a modelled session may return.
SynthTexts ==
  { ScenarioText,
    << Tok("{"), Members(Synth(Arr("x"), Arr("x"), Arr("y"), Arr("y"),
                               Str("high"), Str("All agreed."))), Tok("}") >>,
    << Tok("{"), Members(Synth(Undef, Undef, Undef, Undef, Str("certain"),
                               Num("42"))), Tok("}") >>,
    << Tok("prose"), Tok("{"), Tok("prose") >>,
    << Tok("null") >>,
    << >> }

\* ---------------------------------------------------- field sanitisation
\* A persona field is a string of characters.  "ctl" is a control character
\* of the class the first replace removes, "nl" a line feed, "sp" a space,
\* "bt" a backtick, "q" an apostrophe, "x" a letter.  "S" is one of the words
\* SYSTEM, USER, ASSISTANT, HUMAN in any letter case, so that "S" followed by
\* ":" at the start of a line is a role header.
InputChars == {"ctl", "nl", "sp", "bt", "S", ":", "x"}

\* .replace(/[\x00-\x08\x0b\x0c\x0e-\x1f\x7f]/g, '')
StripControl(value) == SelectSeq(value, LAMBDA ch : ch # "ctl")

\* The second replace, of three backticks by three apostrophes: left to
\* right, matches do not overlap.
RECURSIVE ReplaceFences(_)
ReplaceFences(value) ==
  IF Len(value) >= 3 /\ SubSeq(value, 1, 3) = << "bt", "bt", "bt" >>
  THEN << "q", "q", "q" >> \o ReplaceFences(SubSeq(value, 4, Len(value)))
  ELSE IF value = << >> THEN << >>
       ELSE << Head(value) >> \o ReplaceFences(Tail(value))

\* The positions where /^(SYSTEM|USER|ASSISTANT|HUMAN):/gim matches: the
\* start of the string or of a line, followed by the word and a colon.  A
\* match ends in a colon, so the next match cannot start right after it.
HeaderStarts(value) ==
  {i \in 1 .. Len(value) - 1 :
     /\ value[i] = "S" /\ value[i + 1] = ":"
     /\ (i = 1 \/ value[i - 1] = "nl")}

\* .replace(/^(SYSTEM|USER|ASSISTANT|HUMAN):/gim, '')
StripRoleHeaders(value) ==
  LET starts == HeaderStarts(value)
      keep == {i \in 1 .. Len(value) : i \notin starts /\ (i - 1) \notin starts}
      Nth(S, n) == CHOOSE i \in S : Cardinality({k \in S : k <= i}) = n
  IN [n \in 1 .. Cardinality(keep) |-> value[Nth(keep, n)]]

\* .slice(0, maxLength)
Slice(value, maxLength) == SubSeq(value, 1, Min(maxLength, Len(value)))

RECURSIVE TrimStart(_)
TrimStart(value) ==
  IF Len(value) > 0 /\ value[1] \in {"nl", "sp"} THEN TrimStart(Tail(value))
  ELSE value

RECURSIVE TrimEnd(_)
TrimEnd(value) ==
  IF Len(value) > 0 /\ value[Len(value)] \in {"nl", "sp"}
  THEN TrimEnd(SubSeq(value, 1, Len(value) - 1))
  ELSE value

sanitiseField(value, maxLength) ==
  TrimEnd(TrimStart(
    Slice(StripRoleHeaders(ReplaceFences(StripControl(value))), maxLength)))

\* A persona record; NoField stands for an absent optional field.
NoField == << "undefined" >>
Persona(name, display_name, role, style, bias, expertise) ==
  [name |-> name, display_name |-> display_name, role |-> role,
   style |-> style, bias |-> bias, expertise |-> expertise]
NoPersona == Persona(NoField, NoField, NoField, NoField, NoField, << >>)

\* sanitisePersona: the spread keeps every other property, display_name
\* among them, as it is.
sanitisePersona(persona) ==
  [persona EXCEPT
     !.name = sanitiseField(persona.name, NAME_CAP),
     !.role = sanitiseField(persona.role, ROLE_CAP),
     !.style = sanitiseField(persona.style, STYLE_CAP),
     !.bias = IF persona.bias # NoField /\ persona.bias # << >>
              THEN sanitiseField(persona.bias, BIAS_CAP) ELSE NoField,
     !.expertise =
       SubSeq([i \in 1 .. Len(persona.expertise) |->
                 sanitiseField(persona.expertise[i], EXPERTISE_CAP)],
              1, Min(EXPERTISE_MAX, Len(persona.expertise)))]

\* persona.display_name ?? persona.name
DisplayNameOf(persona) ==
  IF persona.display_name # NoField THEN persona.display_name
  ELSE persona.name

\* A value a prompt interpolates, and the persona field it is taken from.
Interp(field, value) == [field |-> field, value |-> value]

\* The persona values buildPersonaSystemPrompt interpolates, in order.
buildPersonaSystemPrompt(rawPersona) ==
  LET persona == sanitisePersona(rawPersona)
  IN << Interp(IF persona.display_name # NoField THEN "display_name"
               ELSE "name", DisplayNameOf(persona)),
        Interp("role", persona.role) >>
     \o [i \in 1 .. Len(persona.expertise) |->
           Interp("expertise", persona.expertise[i])]
     \o << Interp("style", persona.style) >>
     \o (IF persona.bias # NoField /\ persona.bias # << >>
         THEN << Interp("bias", persona.bias) >> ELSE << >>)

\* The persona values buildPersonaUserPrompt interpolates: the display name,
\* in the closing instruction of round 1.
UserPromptPersonaValues(persona, round) ==
  IF round = 1
  THEN << Interp(IF persona.display_name # NoField THEN "display_name"
                 ELSE "name", DisplayNameOf(persona)) >>
  ELSE << >>

\* personaNames of the opening prompt: personas.map(p => p.display_name ??
\* p.name).
personaNames(ps) ==
  [i \in 1 .. Len(ps) |->
     Interp(IF ps[i].display_name # NoField THEN "display_name" ELSE "name",
            DisplayNameOf(ps[i]))]

\* The personas a stand-alone prompt rendering is given.
FieldValues == { << "x" >>, << "S", ":", "x" >>, << "bt", "bt", "bt" >> }
RawPersonas ==
  {Persona(name, display_name, role, << "x" >>, bias, << expertise >>) :
     name \in FieldValues, display_name \in FieldValues \cup {NoField},
     role \in FieldValues, bias \in {NoField, << "ctl", "x" >>},
     expertise \in FieldValues}

\* ----------------------------------------------------------------- state
VARIABLES
  councils,        \* the shared council objects: [id -> [persona_ids, rounds]]
  pc,              \* per request slot: "idle", "inflight", "done", "failed"
  councilRef,      \* the council object the session holds a reference to
  personas,        \* the session's resolved personas, in order
  transcript,      \* transcript: Message[]
  roundSummaries,  \* roundSummaries: string[]
  providerCalls,   \* providerCalls counter
  call,            \* the callProvider call in flight and its withRetry loop
  lastCall,        \* how the most recent settled callProvider call went
  issued,          \* number of generation calls the session has issued
  startRounds,     \* council.rounds as it was when the session started
  cancel,          \* the client's abort signal, and when it was raised
  result,          \* what runCouncilStream returned or threw
  extractIn,       \* input of a stand-alone run of the extractor
  extractOut,      \* its output
  config,          \* the configuration loadConfig() gave the request
  events,          \* the frames the route has put on the response stream
  sanitiseIn,      \* input of a stand-alone run of sanitiseField
  sanitiseOut,     \* its output
  personaIn,       \* the raw persona of a stand-alone prompt rendering
  promptsOut,      \* the persona values that rendering interpolates
  contrarianIn,    \* the level of a stand-alone run of the contrarian mapping
  contrarianOut,   \* the temperature and the instruction it gives
  ui,              \* the page's React state and its abortRef
  runs             \* the runCouncil invocations of the page and their streams

\* The variables of the session machinery, and those of the stand-alone runs
\* of the pure functions together with those of the web page.
sessionVars == << councils, pc, councilRef, personas, transcript,
                  roundSummaries, providerCalls, call, lastCall, issued,
                  startRounds, cancel, result, config, events >>
pureVars == << extractIn, extractOut, sanitiseIn, sanitiseOut, personaIn,
               promptsOut, contrarianIn, contrarianOut, ui, runs >>
vars == << sessionVars, pureVars >>

NoInstruction == ""
NoCall == [kind |-> "none", round |-> 0, idx |-> 0, attempt |-> 0,
           log |-> << >>, lastError |-> NoError, prompt |-> << >>,
           provider |-> NoProvider, backend |-> NoProvider,
           model |-> NoModel, temperature |-> 0,
           instruction |-> NoInstruction]
NoLastCall == [outcomes |-> << >>, result |-> "none", error |-> NoError]
NoCancel == [signalled |-> FALSE, issued |-> 0, kind |-> "none", round |-> 0]
NoResult == [kind |-> "none", error |-> NoError, transcript |-> << >>,
             synthesis |-> EmptyObject, synthText |-> << >>, rounds |-> 0,
             persona_count |-> 0, provider_calls |-> 0]
NoExtract == [done |-> FALSE, raised |-> "none", synthesis |-> EmptyObject]
NoSanitiseIn == [value |-> << >>, maxLength |-> 0]
NoSanitiseOut == [done |-> FALSE, value |-> << >>]
NoPrompts == [done |-> FALSE, system |-> << >>, user |-> << >>,
              open |-> << >>]
NoLevel == -1
NoContrarian == [done |-> FALSE, temperature |-> 0,
                 instruction |-> NoInstruction]

\* The page before its first session: the useState initial values and an
\* abortRef that holds no controller (0).
NoView == [state |-> "idle", messages |-> << >>, synthesis |-> "null",
           error |-> "", currentSpeaker |-> "", roster |-> << >>,
           abortRef |-> 0]

Init ==
  /\ councils = BUILTIN_COUNCILS
  /\ pc = [s \in Sessions |-> "idle"]
  /\ councilRef = [s \in Sessions |-> 0]
  /\ personas = [s \in Sessions |-> << >>]
  /\ transcript = [s \in Sessions |-> << >>]
  /\ roundSummaries = [s \in Sessions |-> << >>]
  /\ providerCalls = [s \in Sessions |-> 0]
  /\ call = [s \in Sessions |-> NoCall]
  /\ lastCall = [s \in Sessions |-> NoLastCall]
  /\ issued = [s \in Sessions |-> 0]
  /\ startRounds = [s \in Sessions |-> 0]
  /\ cancel = [s \in Sessions |-> NoCancel]
  /\ result = [s \in Sessions |-> NoResult]
  /\ config = [s \in Sessions |-> DefaultConfig]
  /\ events = [s \in Sessions |-> << >>]
  /\ extractIn = << >>
  /\ extractOut = NoExtract
  /\ sanitiseIn = NoSanitiseIn
  /\ sanitiseOut = NoSanitiseOut
  /\ personaIn = NoPersona
  /\ promptsOut = NoPrompts
  /\ contrarianIn = NoLevel
  /\ contrarianOut = NoContrarian
  /\ ui = NoView
  \* No runCouncil invocation has been made.  Of each one the model keeps
  \* where its body stands (pos), whether its controller was aborted, the
  \* frames the server sends on its response and the bytes of them the
  \* reader has not yet been given.
  /\ runs = [r \in Runs |-> [pos |-> "none", aborted |-> FALSE,
                              frames |-> << >>, rest |-> << >>]]

\* council.rounds, read through the session's reference at this moment.  A
\* user council is an object parsed for this request alone: nothing but the
\* request writes its rounds, which stay as they were at the start.
LiveRounds(s) ==
  IF councilRef[s] \in DOMAIN councils THEN councils[councilRef[s]].rounds
  ELSE startRounds[s]

\* Math.min(3, Math.max(1, Number(rounds))): Number gives NaN for a string
\* that holds no number, and Math.max and Math.min give NaN for NaN.
ClampRounds(rounds) ==
  LET n == IF rounds = NonNumeric THEN NaN ELSE rounds
  IN IF n = NaN THEN NaN ELSE Min(MAX_ROUNDS, Max(MIN_ROUNDS, n))

\* The user prompt of the call of the given kind.
PromptFor(s, kind, r, i, tr, sums) ==
  CASE kind = "open"    -> buildModeratorOpenPrompt(personas[s])
    [] kind = "turn"    -> buildPersonaUserPrompt(personas[s][i], tr, sums, r)
    [] kind = "summary" -> buildModeratorSummaryPrompt(tr, r)
    [] OTHER            -> buildSynthesisPrompt(tr)

\* providerConfig.default_model of a provider.
DefaultModel(provider) == "default model of " \o provider

\* The switch of callProvider: the backend whose stream or collect function
\* an attempt invokes.
Dispatch(provider) ==
  CASE provider = "anthropic" -> "anthropic"
    [] provider = "openai" -> "openai"
    [] provider = "google" -> "google"
    [] OTHER -> NoProvider

\* A session that runs every call at the temperature of the opening.
RequestTemperatureFlat(kind, persona) == 500

\* The temperature and the contrarian instruction of the request of a call;
\* persona is the participant of a turn.
RequestTemperature(kind, persona) ==
  CASE kind = "turn" ->
         contrarianTemperature(PERSONAS[persona].contrarian_level)
    [] kind = "open" -> 500
    [] kind = "summary" -> 400
    [] OTHER -> 200
RequestInstruction(kind, persona) ==
  IF kind = "turn"
  THEN contrarianInstruction(PERSONAS[persona].contrarian_level)
  ELSE NoInstruction

\* A callProvider call at its first attempt: the request (user prompt,
\* temperature, the instruction of the system prompt), the provider it was
\* given, the model (personaModel ?? providerConfig.default_model) and the
\* backend the attempt invokes.  persona is 0 for the Moderator's calls.
NewCall(kind, r, i, prompt, persona, provider, cfg) ==
  [kind |-> kind, round |-> r, idx |-> i, attempt |-> 0, log |-> << >>,
   lastError |-> NoError, prompt |-> prompt,
   provider |-> provider, backend |-> Dispatch(provider),
   model |-> IF kind = "turn" /\ PERSONAS[persona].model # NoModel
             THEN PERSONAS[persona].model ELSE DefaultModel(provider),
   temperature |-> RequestTemperature(kind, persona),
   instruction |-> RequestInstruction(kind, persona)]

\* A session that sends every call to the active provider.
CallProviderNameNoOverride(s, kind, i) == getActiveProvider(config[s])

\* The provider a call goes to: a participant's override, else the active
\* provider of the configuration.
CallProviderName(s, kind, i) ==
  IF kind = "turn" /\ PERSONAS[personas[s][i]].provider # NoProvider
  THEN PERSONAS[personas[s][i]].provider
  ELSE getActiveProvider(config[s])

\* A retry loop that keeps the first error instead of the last.
ThrownFirstError(log) == log[1]

\* The error withRetry throws when it gives up: log holds the errors of the
\* call's failed attempts, the one that just failed last.  Both the fail-fast
\* rethrow and the throw of lastError after the loop raise that last error.
ThrownError(log) == log[Len(log)]

\* send(), frame by frame: how many of the given frames reach the stream.
\* Once the client has gone the stream controller may still take a frame or
\* raise because the stream is closed; a raise ends the sending.
SendOutcomes(s, frames) ==
  IF cancel[s].signalled THEN 0 .. Len(frames) ELSE {Len(frames)}

\* The token events of one attempt of the call that will be call number n:
\* the first k tokens of the text that attempt generates.  Tokens are
\* delivered only when the call streams.
StreamedTokens(s, kind, r, n, kept, k) ==
  IF config[s].stream /\ kind # "synth"
  THEN [j \in 1 .. k |-> Token(r, n, kept, j)]
  ELSE << >>

Thrown(e) == [NoResult EXCEPT !.kind = "thrown", !.error = e]

\* A return that hands out the compact transcript of the synthesis prompt.
ReturnedCompact(s, text, synthesis, calls) ==
  [kind |-> "session", error |-> NoError,
   transcript |-> SelectSeq(transcript[s],
                            LAMBDA m : m.speaker # "Moderator" \/ m.round = 0),
   synthesis |-> synthesis, synthText |-> text, rounds |-> LiveRounds(s),
   persona_count |-> Len(personas[s]), provider_calls |-> calls]

\* The Session runCouncilStream returns.
Returned(s, text, synthesis, calls) ==
  [kind |-> "session", error |-> NoError, transcript |-> transcript[s],
   synthesis |-> synthesis, synthText |-> text, rounds |-> LiveRounds(s),
   persona_count |-> Len(personas[s]), provider_calls |-> calls]

SettledOk(s) ==
  [outcomes |-> Append(call[s].log, "ok"), result |-> "ok", error |-> NoError]

\* --------------------------------------------------------------- actions
\* A handler that records the error and leaves the session running.
ThrowLeavesSessionRunning(s, e, ev) ==
  /\ call' = [call EXCEPT ![s] = NoCall]
  /\ issued' = issued
  /\ pc' = pc
  /\ result' = [result EXCEPT ![s] = Thrown(e)]
  /\ events' = [events EXCEPT ![s] = ev]

\* runCouncilStream throws e out of the current continuation, ev being the
\* frames sent so far.  The route's catch block sends the error event and the
\* stream-end frame, and the finally block closes the stream.  When e was
\* raised by the closed controller, the sends of the catch block raise too.
Throw(s, e, ev) ==
  /\ call' = [call EXCEPT ![s] = NoCall]
  /\ issued' = issued
  /\ pc' = [pc EXCEPT ![s] = "failed"]
  /\ result' = [result EXCEPT ![s] = Thrown(e)]
  /\ \E j \in (IF e = ControllerClosed THEN {0}
               ELSE SendOutcomes(s, << ErrorFrame, DoneFrame >>)) :
       events' = [events EXCEPT ![s] =
                    ev \o SubSeq(<< ErrorFrame, DoneFrame >>, 1, j)]

\* A session that issues the calls of all remaining participants of the
\* round at once.
ProceedFanOut(s, kind, r, i, tr, sums, ev, chunks) ==
  /\ call' = [call EXCEPT ![s] =
                NewCall(kind, r, i, PromptFor(s, kind, r, i, tr, sums),
                        IF kind = "turn" THEN personas[s][i] ELSE 0,
                        CallProviderName(s, kind, i), config[s])]
  /\ issued' = [issued EXCEPT ![s] =
                  @ + (IF kind = "turn" THEN Len(personas[s]) - i + 1 ELSE 1)]
  /\ pc' = pc
  /\ result' = result
  /\ events' = [events EXCEPT ![s] = ev \o chunks]

\* The session emits the chunk events that precede its next call and invokes
\* callProvider, which checks the provider's API key, starts attempt 0 and
\* awaits it.
Proceed(s, kind, r, i, tr, sums, ev, chunks) ==
  \E j \in SendOutcomes(s, chunks) :
    LET sent == ev \o SubSeq(chunks, 1, j)
    IN IF j < Len(chunks)
       THEN Throw(s, ControllerClosed, sent)
       ELSE IF ~hasProvider(config[s], CallProviderName(s, kind, i))
            THEN Throw(s, NoApiKeyForProvider, sent)
            ELSE /\ call' = [call EXCEPT ![s] =
                               NewCall(kind, r, i,
                                       PromptFor(s, kind, r, i, tr, sums),
                                       IF kind = "turn" THEN personas[s][i]
                                       ELSE 0,
                                       CallProviderName(s, kind, i),
                                       config[s])]
                 /\ issued' = [issued EXCEPT ![s] = @ + 1]
                 /\ pc' = pc
                 /\ result' = result
                 /\ events' = [events EXCEPT ![s] = sent]

\* A loop that announces the first speaker of a round before the round.
LoopHeadSpeakerFirst(s, r, tr, sums, ev) ==
  IF LessEq(r, LiveRounds(s))
  THEN Proceed(s, "turn", r, 1, tr, sums, ev,
               << SpeakerStart(DisplayName(personas[s][1]), r),
                  RoundStart(r) >>)
  ELSE Proceed(s, "synth", r, 0, tr, sums, ev, << >>)

\* for (let round = ...; round <= council.rounds; round++): the loop test for
\* round r, then either the first turn of round r or the synthesis call.
LoopHead(s, r, tr, sums, ev) ==
  IF LessEq(r, LiveRounds(s))
  THEN Proceed(s, "turn", r, 1, tr, sums, ev,
               << RoundStart(r),
                  SpeakerStart(DisplayName(personas[s][1]), r) >>)
  ELSE Proceed(s, "synth", r, 0, tr, sums, ev, << >>)

\* POST /api/council up to the first await of runCouncilStream: load the
\* configuration, look the council up, apply the rounds override, resolve
\* the personas and the active provider, emit the Moderator's speaker_start
\* and issue the opening call.
Start(s, c, rounds, cfg) ==
  /\ pc[s] = "idle"
  /\ config' = [config EXCEPT ![s] = cfg]
  /\ LET found == c \in DOMAIN councils \cup DOMAIN USER_COUNCILS
         council == IF c \in DOMAIN USER_COUNCILS THEN USER_COUNCILS[c]
                    ELSE councils[c]
         ps == [i \in 1 .. Len(council.persona_ids) |->
                  getPersona(council.persona_ids[i])]
         e == CASE ~found -> CouncilNotFound
                [] found /\ UnknownPersona \in Range(ps) -> PersonaNotFound
                [] found /\ UnknownPersona \notin Range(ps)
                   /\ getActiveProvider(cfg) = NoProvider -> NoApiKey
                [] OTHER -> NoError
     IN /\ councils' = IF c \in DOMAIN councils /\ rounds # 0
                       THEN [councils EXCEPT ![c].rounds = ClampRounds(rounds)]
                       ELSE councils
        /\ IF e # NoError
           THEN /\ Throw(s, e, << >>)
                /\ UNCHANGED << councilRef, personas, startRounds >>
           ELSE /\ councilRef' = [councilRef EXCEPT ![s] = c]
                /\ personas' = [personas EXCEPT ![s] = ps]
                /\ pc' = [pc EXCEPT ![s] = "inflight"]
                /\ call' = [call EXCEPT ![s] =
                              NewCall("open", 0, 0,
                                      buildModeratorOpenPrompt(ps), 0,
                                      getActiveProvider(cfg), cfg)]
                /\ issued' = [issued EXCEPT ![s] = 1]
                /\ startRounds' = [startRounds EXCEPT ![s] =
                                     IF c \in DOMAIN councils
                                     THEN councils'[c].rounds
                                     ELSE IF rounds # 0
                                          THEN ClampRounds(rounds)
                                          ELSE council.rounds]
                /\ events' = [events EXCEPT ![s] =
                                << SpeakerStart("Moderator", 0) >>]
                /\ result' = result
  /\ UNCHANGED << transcript, roundSummaries, providerCalls, lastCall, cancel,
                  pureVars >>

\* A retry loop that counts every attempt, failed ones included.
AttemptRetryCounted(s, e, k) ==
  /\ pc[s] = "inflight"
  /\ RetryDecision(call[s].attempt, e) = "retry"
  /\ call' = [call EXCEPT ![s].attempt = @ + 1, ![s].log = Append(@, e),
                          ![s].lastError = e,
                          ![s].backend = Dispatch(call[s].provider)]
  /\ events' = [events EXCEPT ![s] =
                  @ \o StreamedTokens(s, call[s].kind, call[s].round,
                                      providerCalls[s] + 1, FALSE, k)]
  /\ providerCalls' = [providerCalls EXCEPT ![s] = @ + 1]
  /\ UNCHANGED << councils, pc, councilRef, personas, transcript,
                  roundSummaries, lastCall, issued, startRounds, cancel,
                  result, pureVars, config >>

\* withRetry: the attempt in flight fails with e, after it has streamed k
\* tokens, and is retried after the backoff delay.
AttemptRetry(s, e, k) ==
  /\ pc[s] = "inflight"
  /\ RetryDecision(call[s].attempt, e) = "retry"
  /\ call' = [call EXCEPT ![s].attempt = @ + 1, ![s].log = Append(@, e),
                          ![s].lastError = e,
                          ![s].backend = Dispatch(call[s].provider)]
  /\ events' = [events EXCEPT ![s] =
                  @ \o StreamedTokens(s, call[s].kind, call[s].round,
                                      providerCalls[s] + 1, FALSE, k)]
  /\ UNCHANGED << councils, pc, councilRef, personas, transcript,
                  roundSummaries, providerCalls, lastCall, issued, startRounds,
                  cancel, result, pureVars, config >>

\* withRetry: the attempt in flight fails with e, after it has streamed k
\* tokens, and the call gives up; the error leaves callProvider and
\* runCouncilStream, which has no handler.  Once the client has gone, a
\* streamed attempt can also fail because its token callback hits the closed
\* controller.
AttemptThrow(s, e, k) ==
  /\ pc[s] = "inflight"
  /\ \/ e \in Errors
     \/ /\ e = ControllerClosed /\ cancel[s].signalled
        /\ call[s].kind # "synth" /\ config[s].stream
  /\ RetryDecision(call[s].attempt, e) = "throw"
  /\ lastCall' = [lastCall EXCEPT ![s] =
                    [outcomes |-> Append(call[s].log, e), result |-> "thrown",
                     error |-> ThrownError(Append(call[s].log, e))]]
  /\ Throw(s, ThrownError(Append(call[s].log, e)),
           events[s] \o StreamedTokens(s, call[s].kind, call[s].round,
                                       providerCalls[s] + 1, FALSE, k))
  /\ UNCHANGED << councils, councilRef, personas, transcript, roundSummaries,
                  providerCalls, startRounds, cancel, pureVars,
                  config >>

\* The frames on the stream once the attempt in flight has streamed its whole
\* text and returned.
AfterTokens(s) ==
  events[s] \o StreamedTokens(s, call[s].kind, call[s].round,
                              providerCalls[s] + 1, TRUE, StreamLen)

\* The opening call returns: count it, append the opening, enter round 1.
OpenDone(s) ==
  /\ pc[s] = "inflight"
  /\ call[s].kind = "open"
  /\ LET n == providerCalls[s] + 1
         tr == Append(transcript[s], Msg("Moderator", 0, n))
     IN /\ providerCalls' = [providerCalls EXCEPT ![s] = n]
        /\ transcript' = [transcript EXCEPT ![s] = tr]
        /\ LoopHead(s, 1, tr, roundSummaries[s], AfterTokens(s))
  /\ lastCall' = [lastCall EXCEPT ![s] = SettledOk(s)]
  /\ UNCHANGED << councils, councilRef, personas, roundSummaries, startRounds,
                  cancel, pureVars, config >>

\* A participant's call returns: count it, append the turn, then the next
\* participant, or the round summary when round < council.rounds, or the
\* loop test for the next round.
TurnDone(s) ==
  /\ pc[s] = "inflight"
  /\ call[s].kind = "turn"
  /\ LET n == providerCalls[s] + 1
         r == call[s].round
         i == call[s].idx
         tr == Append(transcript[s],
                      Msg(DisplayName(personas[s][i]), r, n))
     IN /\ providerCalls' = [providerCalls EXCEPT ![s] = n]
        /\ transcript' = [transcript EXCEPT ![s] = tr]
        /\ IF i < Len(personas[s])
           THEN Proceed(s, "turn", r, i + 1, tr, roundSummaries[s],
                        AfterTokens(s),
                        << SpeakerStart(DisplayName(personas[s][i + 1]), r) >>)
           ELSE IF Less(r, LiveRounds(s))
                THEN Proceed(s, "summary", r, 0, tr, roundSummaries[s],
                             AfterTokens(s), << SpeakerStart("Moderator", r) >>)
                ELSE LoopHead(s, r + 1, tr, roundSummaries[s], AfterTokens(s))
  /\ lastCall' = [lastCall EXCEPT ![s] = SettledOk(s)]
  /\ UNCHANGED << councils, councilRef, personas, roundSummaries, startRounds,
                  cancel, pureVars, config >>

\* The summary call returns: count it, keep the summary, append it as a
\* Moderator message of the round, then the loop test for the next round.
SummaryDone(s) ==
  /\ pc[s] = "inflight"
  /\ call[s].kind = "summary"
  /\ LET n == providerCalls[s] + 1
         r == call[s].round
         sums == Append(roundSummaries[s], n)
         tr == Append(transcript[s], Msg("Moderator", r, n))
     IN /\ providerCalls' = [providerCalls EXCEPT ![s] = n]
        /\ roundSummaries' = [roundSummaries EXCEPT ![s] = sums]
        /\ transcript' = [transcript EXCEPT ![s] = tr]
        /\ LoopHead(s, r + 1, tr, sums, AfterTokens(s))
  /\ lastCall' = [lastCall EXCEPT ![s] = SettledOk(s)]
  /\ UNCHANGED << councils, councilRef, personas, startRounds, cancel,
                  pureVars, config >>

\* The synthesis call returns text: count it, extract the decision record,
\* emit the synthesis event and return the Session; the route then sends the
\* stream-end frame and closes the stream.
SynthDone(s, text) ==
  /\ pc[s] = "inflight"
  /\ call[s].kind = "synth"
  /\ providerCalls' = [providerCalls EXCEPT ![s] = @ + 1]
  /\ lastCall' = [lastCall EXCEPT ![s] = SettledOk(s)]
  /\ LET ex == ExtractSynthesis(text)
     IN \E j \in SendOutcomes(s, << SynthesisChunk, DoneFrame >>) :
          IF ex.raised # "none"
          THEN Throw(s, ex.raised, events[s])
          ELSE IF j = 0
               THEN Throw(s, ControllerClosed, events[s])
               ELSE /\ call' = [call EXCEPT ![s] = NoCall]
                    /\ issued' = issued
                    /\ pc' = [pc EXCEPT ![s] = "done"]
                    /\ result' = [result EXCEPT ![s] =
                                    Returned(s, text, ex.synthesis,
                                             providerCalls[s] + 1)]
                    /\ events' = [events EXCEPT ![s] =
                                    @ \o SubSeq(<< SynthesisChunk, DoneFrame >>,
                                                1, j)]
  /\ UNCHANGED << councils, councilRef, personas, transcript, roundSummaries,
                  startRounds, cancel, pureVars, config >>

\* The client aborts its request (cancelCouncil) while the session runs.
\* Neither the route nor runCouncilStream takes an abort signal.
Cancel(s) ==
  /\ pc[s] = "inflight"
  /\ ~cancel[s].signalled
  /\ cancel' = [cancel EXCEPT ![s] =
                  [signalled |-> TRUE, issued |-> issued[s],
                   kind |-> call[s].kind, round |-> call[s].round]]
  /\ UNCHANGED << councils, pc, councilRef, personas, transcript,
                  roundSummaries, providerCalls, call, lastCall, issued,
                  startRounds, result, pureVars, config, events >>

\* The request is over; the slot serves the next request.  The process and
\* its council table live on.
Reset(s) ==
  /\ pc[s] \in {"done", "failed"}
  /\ pc' = [pc EXCEPT ![s] = "idle"]
  /\ councilRef' = [councilRef EXCEPT ![s] = 0]
  /\ personas' = [personas EXCEPT ![s] = << >>]
  /\ transcript' = [transcript EXCEPT ![s] = << >>]
  /\ roundSummaries' = [roundSummaries EXCEPT ![s] = << >>]
  /\ providerCalls' = [providerCalls EXCEPT ![s] = 0]
  /\ call' = [call EXCEPT ![s] = NoCall]
  /\ lastCall' = [lastCall EXCEPT ![s] = NoLastCall]
  /\ issued' = [issued EXCEPT ![s] = 0]
  /\ startRounds' = [startRounds EXCEPT ![s] = 0]
  /\ cancel' = [cancel EXCEPT ![s] = NoCancel]
  /\ result' = [result EXCEPT ![s] = NoResult]
  /\ config' = [config EXCEPT ![s] = DefaultConfig]
  /\ events' = [events EXCEPT ![s] = << >>]
  /\ UNCHANGED << councils, pureVars >>

\* A stand-alone run of the extractor on extractIn.
ApplyExtract ==
  /\ ~extractOut.done
  /\ extractOut' = [done |-> TRUE,
                    raised |-> ExtractSynthesis(extractIn).raised,
                    synthesis |-> ExtractSynthesis(extractIn).synthesis]
  /\ UNCHANGED << sessionVars, extractIn, sanitiseIn, sanitiseOut, personaIn,
                  promptsOut, contrarianIn, contrarianOut, ui, runs >>

\* A stand-alone run of sanitiseField on sanitiseIn.
ApplySanitise ==
  /\ sanitiseIn # NoSanitiseIn
  /\ ~sanitiseOut.done
  /\ sanitiseOut' = [done |-> TRUE,
                     value |-> sanitiseField(sanitiseIn.value,
                                             sanitiseIn.maxLength)]
  /\ UNCHANGED << sessionVars, extractIn, extractOut, sanitiseIn, personaIn,
                  promptsOut, contrarianIn, contrarianOut, ui, runs >>

\* The prompts runCouncilStream renders for the persona personaIn: the
\* system prompt and the round-1 user prompt of its turn, and the opening
\* prompt of a council it attends alone.
RenderPrompts ==
  /\ personaIn # NoPersona
  /\ ~promptsOut.done
  /\ promptsOut' = [done |-> TRUE,
                    system |-> buildPersonaSystemPrompt(personaIn),
                    user |-> UserPromptPersonaValues(personaIn, 1),
                    open |-> personaNames(<< personaIn >>)]
  /\ UNCHANGED << sessionVars, extractIn, extractOut, sanitiseIn,
                  sanitiseOut, personaIn, contrarianIn, contrarianOut, ui,
                  runs >>

\* A stand-alone run of contrarianTemperature and contrarianInstruction on
\* the level contrarianIn.
ApplyContrarian ==
  /\ contrarianIn # NoLevel
  /\ ~contrarianOut.done
  /\ contrarianOut' = [done |-> TRUE,
                       temperature |-> contrarianTemperature(contrarianIn),
                       instruction |-> contrarianInstruction(contrarianIn)]
  /\ UNCHANGED << sessionVars, extractIn, extractOut, sanitiseIn,
                  sanitiseOut, personaIn, promptsOut, contrarianIn, ui,
                  runs >>

\* --------------------------------------------------------------- web page
\* send: a frame goes on the wire as the prefix "data: ", its text and two
\* newlines.  The text is kept in two halves, so that a transport read can
\* end inside it.
send(data) ==
  << [part |-> "data: ", frame |-> data], [part |-> "head", frame |-> data],
     [part |-> "tail", frame |-> data], [part |-> "nl", frame |-> data],
     [part |-> "nl", frame |-> data] >>

\* The bytes of a response on which the route sends the given frames.
RECURSIVE ResponseBody(_)
ResponseBody(frames) ==
  IF frames = << >> THEN << >>
  ELSE send(Head(frames)) \o ResponseBody(Tail(frames))

\* The streams of two sessions of the council of one participant: one of a
\* single round that completes, and one whose opening call fails after its
\* first token.
ServerStreams ==
  { << SpeakerStart("Moderator", 0) >>
      \o [j \in 1 .. StreamLen |-> Token(0, 1, TRUE, j)]
      \o << RoundStart(1), SpeakerStart(DisplayName(1), 1) >>
      \o [j \in 1 .. StreamLen |-> Token(1, 2, TRUE, j)]
      \o << SynthesisChunk, DoneFrame >>,
    << SpeakerStart("Moderator", 0), Token(0, 1, FALSE, 1), ErrorFrame,
       DoneFrame >> }

\* text.split('\n'): the pieces between the newlines of the text.
RECURSIVE Split(_)
Split(text) ==
  IF \A i \in 1 .. Len(text) : text[i].part # "nl" THEN << text >>
  ELSE LET i == CHOOSE i \in 1 .. Len(text) :
                  /\ text[i].part = "nl"
                  /\ \A j \in 1 .. i - 1 : text[j].part # "nl"
       IN << SubSeq(text, 1, i - 1) >>
            \o Split(SubSeq(text, i + 1, Len(text)))

\* The lines of one read that the loop looks at: decode(value), split at
\* the newlines, keep what starts with "data: ".  Nothing of a read is kept
\* for the next one.
Lines(value) ==
  SelectSeq(Split(value), LAMBDA l : l # << >> /\ l[1].part = "data: ")

\* The handlers of the chunk types.  speaker_start closes the open card and
\* opens a new one, and marks the speaker in the roster; token appends to
\* the last card when that card is streaming; synthesis closes everything
\* and sets the state to done; other types have no handler.
applyChunk(v, chunk) ==
  LET closed == [i \in 1 .. Len(v.messages) |->
                   [v.messages[i] EXCEPT !.isStreaming = FALSE]]
      last == Len(v.messages)
      settled == [i \in 1 .. Len(v.roster) |->
                    [v.roster[i] EXCEPT !.status = "done"]]
  IN CASE chunk.type = "speaker_start" ->
            [v EXCEPT
               !.currentSpeaker = chunk.speaker,
               !.roster =
                 IF \E i \in 1 .. Len(settled) :
                      settled[i].name = chunk.speaker
                 THEN [i \in 1 .. Len(settled) |->
                         IF settled[i].name = chunk.speaker
                         THEN [settled[i] EXCEPT !.status = "speaking"]
                         ELSE settled[i]]
                 ELSE Append(settled, [name |-> chunk.speaker,
                                       status |-> "speaking"]),
               !.messages =
                 Append(closed, [speaker |-> chunk.speaker,
                                 round |-> chunk.round, content |-> << >>,
                                 isStreaming |-> TRUE])]
       [] chunk.type = "token" ->
            IF last > 0 /\ v.messages[last].isStreaming
            THEN [v EXCEPT !.messages[last].content = Append(@, chunk)]
            ELSE v
       [] chunk.type = "synthesis" ->
            [v EXCEPT !.synthesis = "synthesis", !.messages = closed,
                      !.roster = settled, !.state = "done",
                      !.currentSpeaker = ""]
       [] OTHER -> v

\* The for loop over the lines of one read.  "[DONE]" sets the state to done
\* and leaves the read loop; a line that JSON.parse rejects raises a
\* SyntaxError, which the inner catch swallows; an error chunk raises an
\* Error, which the inner catch raises again and the outer catch turns into
\* the error text and the state error.
RECURSIVE Consume(_, _)
Consume(v, lines) ==
  IF lines = << >> THEN [view |-> v, exit |-> "none"]
  ELSE LET data == Tail(lines[1])
           whole == /\ Len(data) = 2
                    /\ data[1].part = "head" /\ data[2].part = "tail"
                    /\ data[1].frame = data[2].frame
       IN IF whole /\ data[1].frame = DoneFrame
          THEN [view |-> [v EXCEPT !.state = "done"], exit |-> "break"]
          ELSE IF ~whole \/ data[1].frame.type = "[DONE]"
               THEN Consume(v, Tail(lines))
               ELSE IF data[1].frame.type = "error"
                    THEN [view |-> [v EXCEPT
                                      !.error = "text of the error event",
                                      !.state = "error"],
                          exit |-> "throw"]
                    ELSE Consume(applyChunk(v, data[1].frame), Tail(lines))

\* runCouncil up to its await of fetch: the guard, the reset of the view,
\* a new controller in abortRef and the request.  The question is never
\* blank.
runCouncil(r) ==
  /\ ui.state # "running"
  /\ runs[r].pos = "none"
  /\ \A q \in 1 .. r - 1 : runs[q].pos # "none"
  /\ ui' = [NoView EXCEPT !.state = "running", !.abortRef = r]
  /\ runs' = [runs EXCEPT ![r].pos = "fetch"]
  /\ UNCHANGED << sessionVars, extractIn, extractOut, sanitiseIn,
                  sanitiseOut, personaIn, promptsOut, contrarianIn,
                  contrarianOut >>

\* fetch resolves: with a response that is not ok the body's error text is
\* raised and the outer catch sets the state error; otherwise the response
\* is the stream on which the server sends the given frames, its reader is
\* taken and the first read awaited.
Fetched(r, ok, frames) ==
  /\ runs[r].pos = "fetch"
  /\ ~runs[r].aborted
  /\ IF ok
     THEN /\ runs' = [runs EXCEPT ![r].pos = "read", ![r].frames = frames,
                                  ![r].rest = ResponseBody(frames)]
          /\ ui' = ui
     ELSE /\ runs' = [runs EXCEPT ![r].pos = "returned"]
          /\ ui' = [ui EXCEPT !.error = "Council failed", !.state = "error"]
  /\ UNCHANGED << sessionVars, extractIn, extractOut, sanitiseIn,
                  sanitiseOut, personaIn, promptsOut, contrarianIn,
                  contrarianOut >>

\* A catch that takes the rejection of an aborted request for a failure.
RejectedAsFailure(r) ==
  /\ runs[r].pos \in {"fetch", "read"}
  /\ runs[r].aborted
  /\ runs' = [runs EXCEPT ![r].pos = "returned"]
  /\ ui' = [ui EXCEPT !.error = "The user aborted a request.",
                      !.state = "error"]
  /\ UNCHANGED << sessionVars, extractIn, extractOut, sanitiseIn,
                  sanitiseOut, personaIn, promptsOut, contrarianIn,
                  contrarianOut >>

\* The await of a request whose controller was aborted rejects with an
\* AbortError, and the outer catch returns.
Rejected(r) ==
  /\ runs[r].pos \in {"fetch", "read"}
  /\ runs[r].aborted
  /\ runs' = [runs EXCEPT ![r].pos = "returned"]
  /\ ui' = ui
  /\ UNCHANGED << sessionVars, extractIn, extractOut, sanitiseIn,
                  sanitiseOut, personaIn, promptsOut, contrarianIn,
                  contrarianOut >>

\* reader.read() resolves and the loop body runs to the next await.  When
\* the stream has ended the loop is left; otherwise the read gives the next
\* k bytes, wherever in a frame they end.  A request that was aborted gives
\* no more reads.
Read(r) ==
  /\ runs[r].pos = "read"
  /\ ~runs[r].aborted
  /\ IF runs[r].rest = << >>
     THEN /\ runs' = [runs EXCEPT ![r].pos = "returned"]
          /\ ui' = ui
     ELSE \E k \in 1 .. Len(runs[r].rest) :
            LET out == Consume(ui, Lines(SubSeq(runs[r].rest, 1, k)))
            IN /\ ui' = out.view
               /\ runs' = [runs EXCEPT
                             ![r].pos = IF out.exit = "none" THEN "read"
                                        ELSE "returned",
                             ![r].rest = IF out.exit = "none"
                                         THEN SubSeq(@, k + 1, Len(@))
                                         ELSE << >>]
  /\ UNCHANGED << sessionVars, extractIn, extractOut, sanitiseIn,
                  sanitiseOut, personaIn, promptsOut, contrarianIn,
                  contrarianOut >>

\* cancelCouncil, offered while the state is running: abort the controller
\* in abortRef, set the state to idle and clear the current speaker.  The
\* abort puts the response stream in error, which drops what it had queued.
cancelCouncil ==
  /\ ui.state = "running"
  /\ runs' = IF ui.abortRef \in Runs
             THEN [runs EXCEPT ![ui.abortRef].aborted = TRUE,
                               ![ui.abortRef].rest = << >>]
             ELSE runs
  /\ ui' = [ui EXCEPT !.state = "idle", !.currentSpeaker = ""]
  /\ UNCHANGED << sessionVars, extractIn, extractOut, sanitiseIn,
                  sanitiseOut, personaIn, promptsOut, contrarianIn,
                  contrarianOut >>

\* -------------------------------------------------------- specifications
\* One request served by a fresh process with every provider configured;
\* failed attempts fail before their first token.
Next ==
  \E s \in {1} :
    \/ \E c \in CouncilIds, rounds \in RoundsInputs :
         Start(s, c, rounds, DefaultConfig)
    \/ \E e \in Errors : AttemptRetry(s, e, 0)
    \/ \E e \in Errors \cup {ControllerClosed} : AttemptThrow(s, e, 0)
    \/ OpenDone(s)
    \/ TurnDone(s)
    \/ SummaryDone(s)
    \/ \E text \in SynthTexts : SynthDone(s, text)
    \/ Cancel(s)

Spec == Init /\ [][Next]_vars

\* A long-running server process with two request slots that share the
\* council table; the requests address the councils of ServerCouncils and
\* backends do not fail transiently.
ServerCouncils == {1, 2}

NextServer ==
  \E s \in Sessions :
    \/ \E c \in ServerCouncils, rounds \in 0 .. MAX_ROUNDS :
         Start(s, c, rounds, DefaultConfig)
    \/ AttemptThrow(s, "401 authentication_error", 0)
    \/ OpenDone(s)
    \/ TurnDone(s)
    \/ SummaryDone(s)
    \/ SynthDone(s, ScenarioText)
    \/ Reset(s)

SpecServer == Init /\ [][NextServer]_vars

\* The same server when every backend attempt in flight eventually settles:
\* it returns or fails, and the continuation that awaits it runs.
Settle(s) ==
  \/ AttemptThrow(s, "401 authentication_error", 0)
  \/ OpenDone(s)
  \/ TurnDone(s)
  \/ SummaryDone(s)
  \/ SynthDone(s, ScenarioText)

SpecServerLive == SpecServer /\ \A s \in Sessions : WF_vars(Settle(s))

\* One request under any configuration and for any council id, known or not;
\* attempts fail before, in the middle of or after their token stream, and
\* the client may abort.
RouteErrors == {"529 overloaded_error", "401 authentication_error"}
RouteConfigs ==
  { DefaultConfig,
    Config(ProviderNames, "anthropic", FALSE),
    Config({"anthropic"}, "anthropic", TRUE),
    Config({"google"}, "anthropic", TRUE),
    Config({}, "anthropic", TRUE) }

\* The tokens a failing attempt may have streamed: only the first
\* MidStreamCalls calls of a session fail in the middle of their stream.
MidStreamCalls == 1
StreamedBeforeFailure(s) ==
  IF providerCalls[s] < MidStreamCalls THEN 0 .. StreamLen ELSE {0}

NextRoute ==
  \E s \in {1} :
    \/ \E c \in {UnknownCouncil, UserCouncil, 1, 2},
          rounds \in {0, MAX_ROUNDS}, cfg \in RouteConfigs :
         Start(s, c, rounds, cfg)
    \/ \E e \in RouteErrors, k \in StreamedBeforeFailure(s) :
         AttemptRetry(s, e, k)
    \/ \E e \in RouteErrors \cup {ControllerClosed},
          k \in StreamedBeforeFailure(s) :
         AttemptThrow(s, e, k)
    \/ OpenDone(s)
    \/ TurnDone(s)
    \/ SummaryDone(s)
    \/ \E text \in {ScenarioText, << Tok("null") >>} : SynthDone(s, text)
    \/ Cancel(s)

SpecRoute == Init /\ [][NextRoute]_vars

\* One request for a built-in council or for the user council whose first
\* participant is named Moderator, with any rounds value a request body can
\* carry: absent, an integer below, inside or above the range, or a string
\* that holds no number.
NextCatalog ==
  \E s \in {1} :
    \/ \E c \in {2, NamesakeCouncil},
          rounds \in {0, -1, 1, MAX_ROUNDS + 1, NonNumeric} :
         Start(s, c, rounds, DefaultConfig)
    \/ \E e \in RouteErrors : AttemptRetry(s, e, 0)
    \/ \E e \in RouteErrors : AttemptThrow(s, e, 0)
    \/ OpenDone(s)
    \/ TurnDone(s)
    \/ SummaryDone(s)
    \/ SynthDone(s, ScenarioText)

SpecCatalog == Init /\ [][NextCatalog]_vars

\* The session machinery at rest, and the page with no session run yet.
InitSessions ==
  /\ Init!1 /\ Init!2 /\ Init!3 /\ Init!4 /\ Init!5 /\ Init!6 /\ Init!7
  /\ Init!8 /\ Init!9 /\ Init!10 /\ Init!11 /\ Init!12 /\ Init!13
  /\ Init!14 /\ Init!15 /\ Init!24 /\ Init!25

\* The extractor alone, on every text of Texts.
InitExtract ==
  /\ InitSessions
  /\ extractIn \in Texts
  /\ extractOut = NoExtract
  /\ Init!18 /\ Init!19 /\ Init!20 /\ Init!21 /\ Init!22 /\ Init!23

NextExtract == ApplyExtract

SpecExtract == InitExtract /\ [][NextExtract]_vars

\* sanitiseField alone on every string of up to MaxFieldLen characters
\* under every cap up to MaxFieldLen, and the prompt rendering alone on every
\* persona of RawPersonas.
InitSanitise ==
  /\ InitSessions
  /\ Init!16 /\ Init!17
  /\ \/ /\ sanitiseIn \in
             [value : UNION {[1 .. n -> InputChars] : n \in 0 .. MaxFieldLen},
              maxLength : 1 .. MaxFieldLen]
        /\ personaIn = NoPersona
     \/ /\ sanitiseIn = NoSanitiseIn
        /\ personaIn \in RawPersonas
  /\ sanitiseOut = NoSanitiseOut
  /\ promptsOut = NoPrompts
  /\ Init!22 /\ Init!23

NextSanitise == ApplySanitise \/ RenderPrompts

SpecSanitise == InitSanitise /\ [][NextSanitise]_vars

\* The contrarian mapping alone, on every level from 0.00 to 1.00.
Levels == 0 .. 100

InitContrarian ==
  /\ InitSessions
  /\ Init!16 /\ Init!17 /\ Init!18 /\ Init!19 /\ Init!20 /\ Init!21
  /\ contrarianIn \in Levels
  /\ contrarianOut = NoContrarian

NextContrarian == ApplyContrarian

SpecContrarian == InitContrarian /\ [][NextContrarian]_vars

\* The page alone: the user runs and cancels sessions, and the transport
\* hands the bytes of each response to the reader in reads of any length.
NextClient ==
  \/ \E r \in Runs : runCouncil(r)
  \/ \E r \in Runs, ok \in BOOLEAN, frames \in ServerStreams :
       Fetched(r, ok, frames)
  \/ \E r \in Runs : Rejected(r)
  \/ \E r \in Runs : Read(r)
  \/ cancelCouncil

SpecClient == Init /\ [][NextClient]_vars

\* ---------------------------------------------------------------- claims
Degraded(x) ==
  /\ x.decisions = Arr("") /\ x.dissent = Arr("")
  /\ x.open_questions = Arr("") /\ x.actions = Arr("")
  /\ x.confidence = Str("low")
  /\ x.summary = Str("[Synthesis could not be parsed]")

\* C1: every session that completes normally with P participants and
\* R >= 1 rounds returns a transcript of exactly 1 + R*P + (R-1) messages.
C1_TranscriptLength ==
  \A s \in Sessions :
    (result[s].kind = "session" /\ result[s].rounds >= 1) =>
      Len(result[s].transcript) =
        1 + result[s].rounds * result[s].persona_count
          + (result[s].rounds - 1)

\* The speaker and round marker of each message of a transcript.
Outline(tr) ==
  [i \in 1 .. Len(tr) |-> << tr[i].speaker, tr[i].round >>]

\* Round r of the schedule: the participants in list order, then the
\* Moderator summary unless r is the last round.
RoundBlock(ps, r, R) ==
  [i \in 1 .. Len(ps) |-> << DisplayName(ps[i]), r >>]
  \o (IF r < R THEN << << "Moderator", r >> >> ELSE << >>)

RECURSIVE ScheduleUpTo(_, _, _)
ScheduleUpTo(ps, r, R) ==
  IF r = 0 THEN << << "Moderator", 0 >> >>
  ELSE ScheduleUpTo(ps, r - 1, R) \o RoundBlock(ps, r, R)

\* C2: the transcript of a session that completes normally is exactly the
\* deterministic schedule: opening, then per round the participants in list
\* order and, except after the last round, one Moderator summary.
C2_TranscriptIsSchedule ==
  \A s \in Sessions :
    (result[s].kind = "session" /\ result[s].rounds >= 1) =>
      Outline(result[s].transcript)
        = ScheduleUpTo(personas[s], result[s].rounds, result[s].rounds)

\* The generated texts a prompt carries.
PromptContents(p) == {x.content : x \in Range(p)} \ {0}

\* The texts of the opening and of the participant turns of rounds before r.
OlderRawContents(tr, r) ==
  {m.content : m \in {x \in Range(tr) :
                        x.round < r /\ (x.speaker # "Moderator" \/ x.round = 0)}}

\* C3: the prompt of a participant turn of round r >= 2 carries no text of
\* the opening or of a participant turn of an earlier round; what it carries
\* of the transcript are the summaries of rounds 1..r-1 and the turns
\* already made in round r.
C3_NoOlderRoundLeak ==
  \A s \in Sessions :
    (call[s].kind = "turn" /\ call[s].round >= 2) =>
      LET r == call[s].round
          p == call[s].prompt
          tr == transcript[s]
      IN /\ PromptContents(p) \cap OlderRawContents(tr, r) = {}
         /\ \A x \in Range(p) :
              x.content # 0 =>
                \/ /\ x.tag = "Round"
                   /\ x.n \in 1 .. (r - 1)
                   /\ \E m \in Range(tr) :
                        /\ m.speaker = "Moderator" /\ m.round = x.n
                        /\ m.content = x.content
                \/ /\ x.tag = "turn"
                   /\ \E m \in Range(tr) :
                        /\ m.round = r /\ m.speaker = x.speaker
                        /\ m.content = x.content

\* A second-round turn is being prompted after another turn of that round.
C3_Witness ==
  \E s \in Sessions :
    /\ call[s].kind = "turn" /\ call[s].round = 2 /\ call[s].idx = 2
    /\ \E x \in Range(call[s].prompt) : x.tag = "turn"
    /\ \E x \in Range(call[s].prompt) : x.tag = "Round"

\* C4: when a generation call still fails after the retries, the
\* orchestrator returns a Session holding every message appended so far and
\* a degraded decision record.
C4_FailureReturnsPartialSession ==
  \A s \in Sessions :
    (pc[s] = "failed" /\ lastCall[s].result = "thrown") =>
      /\ result[s].kind = "session"
      /\ result[s].transcript = transcript[s]
      /\ Degraded(result[s].synthesis)

\* C5: whatever text the synthesis call of a session returns, no exception
\* of the extraction reaches the caller and the Session carries a decision
\* record; when the candidate payload does not parse, the record is the
\* degraded fallback and the transcript is returned intact.
C5_ExtractionNeverRaises ==
  \A s \in Sessions :
    /\ result[s].kind = "thrown" =>
         result[s].error \notin {"SyntaxError", "TypeError"}
    /\ (pc[s] \in {"done", "failed"} /\ lastCall[s].result = "ok"
        /\ ~cancel[s].signalled) =>
         /\ result[s].kind = "session"
         /\ result[s].transcript = transcript[s]
         /\ \A f \in DOMAIN result[s].synthesis :
              result[s].synthesis[f].t \notin {"undefined", "null"}
         /\ ~JSONParse(Candidate(result[s].synthText)).ok =>
              Degraded(result[s].synthesis)

\* A session has ended on a synthesis text that is not JSON.
C5_Witness ==
  \E s \in Sessions :
    /\ pc[s] = "done"
    /\ result[s].synthText = << Tok("prose"), Tok("{"), Tok("prose") >>
    /\ Len(result[s].transcript) > 1

ListFields == {"decisions", "dissent", "open_questions", "actions"}

\* The object a text's candidate payload parses to.
ParsedObject(text) == JSONParse(Candidate(text)).obj

ParsesToObject(text) ==
  JSONParse(Candidate(text)).ok /\ JSONParse(Candidate(text)).kind = "object"

\* C6: whenever the candidate payload parses, the decision record is
\* schema-conformant: the four list fields are lists, confidence is one of
\* low/medium/high and summary is a string; a field that is absent or of the
\* wrong shape takes its default and a correctly shaped field is kept.
C6_ParsedRecordConformsToSchema ==
  (extractOut.done /\ ParsesToObject(extractIn)) =>
    LET in == ParsedObject(extractIn)
        out == extractOut.synthesis
    IN /\ \A f \in ListFields :
            /\ out[f].t = "array"
            /\ out[f] = (IF in[f].t = "array" THEN in[f] ELSE Arr(""))
       /\ out.confidence \in {Str("low"), Str("medium"), Str("high")}
       /\ out.confidence =
            (IF in.confidence \in {Str("low"), Str("medium"), Str("high")}
             THEN in.confidence ELSE Str("medium"))
       /\ out.summary.t = "string"
       /\ out.summary =
            (IF in.summary.t = "string" /\ in.summary.v # ""
             THEN in.summary ELSE Str("See transcript."))

\* The highest round marker of a transcript.
ExecutedRounds(tr) ==
  IF tr = << >> THEN 0
  ELSE CHOOSE r \in {m.round : m \in Range(tr)} :
         \A m \in Range(tr) : m.round <= r

\* C7: the number of rounds a session executes, and whether it produces the
\* summary after each round, is fixed when the session starts; a session
\* started meanwhile for the same council with another round count does not
\* change it.
C7_RoundsFixedAtStart ==
  \A s \in Sessions :
    result[s].kind = "session" =>
      /\ ExecutedRounds(result[s].transcript) = startRounds[s]
      /\ Len(roundSummaries[s]) = startRounds[s] - 1

\* C8: once cancellation is signalled the session issues no further
\* generation call and, when no backend call fails, returns the partial
\* transcript with a degraded decision record; signalled after round 1 and
\* before round 2, the Session has exactly 1 + P messages.
C8_CancellationStopsSession ==
  \A s \in Sessions :
    cancel[s].signalled =>
      /\ issued[s] = cancel[s].issued
      /\ (pc[s] \in {"done", "failed"} /\ lastCall[s].result # "thrown") =>
           /\ result[s].kind = "session"
           /\ Degraded(result[s].synthesis)
           /\ (cancel[s].kind = "summary" /\ cancel[s].round = 1) =>
                Len(result[s].transcript) = 1 + Len(personas[s])

\* The attempts of a settled call that failed.
FailedAttempts(lc) ==
  {i \in 1 .. Len(lc.outcomes) : lc.outcomes[i] # "ok"}

\* C9: a call whose backend fails twice with a retryable error and then
\* succeeds is a successful call of exactly 3 attempts; a non-retryable
\* error ends the call on the attempt it occurs on, with that error, also
\* after a retryable failure, so that it costs exactly 1 attempt when it
\* comes first.
C9_RetryPolicy ==
  \A s \in Sessions :
    LET lc == lastCall[s]
        n == Len(lc.outcomes)
    IN /\ \A i \in 1 .. Len(call[s].log) : isRetryable(call[s].log[i])
       /\ lc.result = "ok" =>
            /\ lc.outcomes[n] = "ok"
            /\ \A i \in 1 .. (n - 1) : isRetryable(lc.outcomes[i])
       /\ (lc.result = "thrown" /\ n < 3) => ~isRetryable(lc.outcomes[n])
       /\ \A i \in FailedAttempts(lc) :
            ~isRetryable(lc.outcomes[i]) =>
              /\ i = n
              /\ lc.result = "thrown"
              /\ lc.error = lc.outcomes[i]
       /\ (n = 3 /\ lc.outcomes[3] = "ok") =>
            /\ isRetryable(lc.outcomes[1]) /\ isRetryable(lc.outcomes[2])
            /\ lc.result = "ok"

\* A call has succeeded on its third attempt after two retryable failures.
C9_Witness ==
  \E s \in Sessions :
    /\ lastCall[s].result = "ok"
    /\ Len(lastCall[s].outcomes) = 3
    /\ isRetryable(lastCall[s].outcomes[1])
    /\ isRetryable(lastCall[s].outcomes[2])
    /\ providerCalls[s] >= 1

\* C10: a call makes at most 3 attempts; when every attempt fails with a
\* retryable error the call fails after the third attempt, with the error of
\* that last attempt.
C10_RetriesExhausted ==
  \A s \in Sessions :
    LET lc == lastCall[s]
        n == Len(lc.outcomes)
    IN /\ n <= 3
       /\ call[s].attempt = Len(call[s].log)
       /\ call[s].attempt <= 2
       /\ (lc.result = "thrown"
           /\ \A i \in 1 .. n : isRetryable(lc.outcomes[i])) =>
            /\ n = 3
            /\ lc.error = lc.outcomes[3]

\* A call has failed on three retryable errors, the last unlike the first.
C10_Witness ==
  \E s \in Sessions :
    /\ lastCall[s].result = "thrown"
    /\ Len(lastCall[s].outcomes) = 3
    /\ isRetryable(lastCall[s].outcomes[3])
    /\ lastCall[s].outcomes[3] # lastCall[s].outcomes[1]
    /\ pc[s] = "failed"

\* C11: once a generation call has failed with a non-retryable error, or
\* callProvider has refused the call for missing credentials, the session is
\* over: the failing attempt is the last attempt made, no call is in flight
\* and no further attempt or call is ever made.
C11_NonRetryableAborts ==
  [][\A s \in Sessions :
       (result[s].kind = "thrown" /\ ~isRetryable(result[s].error)) =>
         /\ pc[s] = "failed" /\ call[s] = NoCall
         /\ lastCall[s].result = "thrown" =>
              lastCall[s].outcomes[Len(lastCall[s].outcomes)] = result[s].error
         /\ pc'[s] = "failed" /\ call'[s] = NoCall
         /\ issued'[s] = issued[s]
         /\ providerCalls'[s] = providerCalls[s]
         /\ lastCall'[s] = lastCall[s]
         /\ events'[s] = events[s]]_vars

\* A session has failed on an authentication error in its second round,
\* after a retried attempt, and another on missing credentials of a
\* participant's provider.
C11_Witness ==
  \E s \in Sessions :
    /\ pc[s] = "failed"
    /\ result[s].error = "401 authentication_error"
    /\ Len(lastCall[s].outcomes) = 2
    /\ ExecutedRounds(transcript[s]) >= 1
    /\ issued[s] >= 3

\* C12: a session that fails on a configuration error (unknown council or
\* participant id, missing credentials of the default provider or of a
\* participant's provider) has issued no generation call.
C12_ConfigErrorsBeforeAnyCall ==
  \A s \in Sessions :
    (result[s].kind = "thrown" /\ result[s].error \in ConfigErrors) =>
      /\ issued[s] = 0
      /\ providerCalls[s] = 0

\* C13: at most one generation call of a session is in flight: the call in
\* flight is call number providerCalls + 1, message k of the transcript is
\* the text of call k, and a call is issued only when the messages of all
\* earlier calls are in the transcript.
C13_OneCallInFlight ==
  \A s \in Sessions :
    /\ issued[s] - providerCalls[s] \in {0, 1}
    /\ pc[s] = "inflight" =>
         /\ issued[s] = providerCalls[s] + 1
         /\ call[s].kind # "none"
         /\ Len(transcript[s]) = providerCalls[s]
    /\ \A k \in 1 .. Len(transcript[s]) : transcript[s][k].content = k

\* The second participant of round 2 is being called.
C13_Witness ==
  \E s \in Sessions :
    /\ pc[s] = "inflight"
    /\ call[s].kind = "turn" /\ call[s].round = 2 /\ call[s].idx = 2
    /\ issued[s] = Len(transcript[s]) + 1
    /\ Len(transcript[s]) >= 5

\* The token frames on the stream that belong to call n, in order.
TokensOfCall(ev, n) ==
  SelectSeq(ev, LAMBDA f : f.type = "token" /\ f.call = n)

\* The token frames of the text call n returns.
TextTokens(r, n) == [j \in 1 .. StreamLen |-> Token(r, n, TRUE, j)]

\* C14: with streaming enabled, the tokens delivered during the call that
\* produced message n of the transcript, in delivery order, are exactly the
\* tokens of the text of message n.
C14_TokensConcatenateToText ==
  \A s \in Sessions :
    config[s].stream =>
      \A n \in 1 .. Len(transcript[s]) :
        TokensOfCall(events[s], n) = TextTokens(transcript[s][n].round, n)

\* The positions of the frames of a type.
FramesOfType(ev, type) == {p \in 1 .. Len(ev) : ev[p].type = type}

\* The position of the n-th frame of a set of positions, 0 when there is none.
NthPosition(P, n) ==
  IF Cardinality(P) < n THEN 0
  ELSE CHOOSE p \in P : Cardinality({q \in P : q <= p}) = n

\* C15: the events follow the turns: the k-th speaker_start carries the
\* speaker and round of message k; the tokens of the call of message k lie
\* between the k-th and the (k+1)-th speaker_start; each round has one
\* round_start, before every speaker_start of the round except the
\* Moderator's opening; a session that returns has emitted exactly one
\* synthesis event, after every turn event; no token belongs to the
\* synthesis call.
C15_EventsFollowTurns ==
  \A s \in Sessions :
    LET ev == events[s]
        tr == transcript[s]
        starts == FramesOfType(ev, "speaker_start")
        turnEvents == starts \cup FramesOfType(ev, "token")
                             \cup FramesOfType(ev, "round_start")
    IN /\ \A k \in 1 .. Len(tr) :
            /\ NthPosition(starts, k) > 0
            /\ ev[NthPosition(starts, k)].speaker = tr[k].speaker
            /\ ev[NthPosition(starts, k)].round = tr[k].round
       /\ \A p \in FramesOfType(ev, "token") :
            /\ NthPosition(starts, ev[p].call) > 0
            /\ NthPosition(starts, ev[p].call) < p
            /\ ev[NthPosition(starts, ev[p].call)].round = ev[p].round
            /\ NthPosition(starts, ev[p].call + 1) > 0 =>
                 p < NthPosition(starts, ev[p].call + 1)
       /\ \A p \in starts :
            ev[p].round >= 1 =>
              \E q \in FramesOfType(ev, "round_start") :
                q < p /\ ev[q].round = ev[p].round
       /\ \A q1, q2 \in FramesOfType(ev, "round_start") :
            ev[q1].round = ev[q2].round => q1 = q2
       /\ Cardinality(FramesOfType(ev, "synthesis")) <= 1
       /\ \A q \in FramesOfType(ev, "synthesis") :
            /\ \A p \in turnEvents : p < q
            /\ \A p \in FramesOfType(ev, "token") : ev[p].call <= Len(tr)
       /\ result[s].kind = "session" =>
            Cardinality(FramesOfType(ev, "synthesis")) = 1
       /\ call[s].kind = "synth" =>
            \A p \in FramesOfType(ev, "token") : ev[p].call <= Len(tr)

\* A session has returned after a call that was retried in the middle of its
\* token stream.
C15_Witness ==
  \E s \in Sessions :
    /\ result[s].kind = "session"
    /\ \E p \in FramesOfType(events[s], "token") : ~events[s][p].kept
    /\ Cardinality(FramesOfType(events[s], "round_start")) >= 2
    /\ Cardinality(FramesOfType(events[s], "synthesis")) = 1

\* The number of frames of a type.
CountFrames(ev, type) == Cardinality(FramesOfType(ev, type))

\* C16: when the request is over, the stream holds the stream-end frame
\* exactly once, as its last frame; when the session threw, exactly one
\* error event stands right before it and the stream holds no synthesis
\* event.
C16_StreamEndsWithDone ==
  \A s \in Sessions :
    pc[s] \in {"done", "failed"} =>
      LET ev == events[s]
          n == Len(ev)
      IN /\ n > 0 /\ ev[n] = DoneFrame
         /\ CountFrames(ev, "[DONE]") = 1
         /\ pc[s] = "failed" =>
              /\ n >= 2 /\ ev[n - 1] = ErrorFrame
              /\ CountFrames(ev, "error") = 1
              /\ CountFrames(ev, "synthesis") = 0

\* The cap sanitisePersona gives a field.
FieldCap(field) ==
  CASE field \in {"name", "display_name"} -> NAME_CAP
    [] field = "role" -> ROLE_CAP
    [] field = "style" -> STYLE_CAP
    [] field = "bias" -> BIAS_CAP
    [] OTHER -> EXPERTISE_CAP

\* The raw values of a field of a persona.
RawValues(persona, field) ==
  IF field = "expertise" THEN Range(persona.expertise)
  ELSE {persona[field]}

\* x is the sanitised form of a raw value of its field.
Sanitised(persona, x) ==
  \E raw \in RawValues(persona, x.field) :
    x.value = sanitiseField(raw, FieldCap(x.field))

\* C17: every persona value that the system prompt, the user prompt and the
\* opening prompt interpolate is the sanitised form of the persona field it
\* is taken from, the display name included.
C17_PromptsCarrySanitisedFields ==
  promptsOut.done =>
    \A x \in Range(promptsOut.system) \cup Range(promptsOut.user)
             \cup Range(promptsOut.open) :
      Sanitised(personaIn, x)

\* C18: sanitiseField is idempotent under every cap.
C18_SanitiseIdempotent ==
  sanitiseOut.done =>
    sanitiseField(sanitiseOut.value, sanitiseIn.maxLength) = sanitiseOut.value

\* C19: the output of sanitiseField holds no control character, no role
\* header at the start of a line and no run of three backticks, and is no
\* longer than the cap.
C19_SanitisedOutputIsClean ==
  sanitiseOut.done =>
    LET out == sanitiseOut.value
    IN /\ "ctl" \notin Range(out)
       /\ HeaderStarts(out) = {}
       /\ \A i \in 1 .. Len(out) - 2 :
            SubSeq(out, i, i + 2) # << "bt", "bt", "bt" >>
       /\ Len(out) <= sanitiseIn.maxLength

\* The Moderator's summary messages of a transcript.
SummaryMessages(tr) ==
  SelectSeq(tr, LAMBDA m : m.speaker = "Moderator" /\ m.round >= 1)

\* C20: a participant prompt of round r >= 2 is built when exactly r-1
\* summaries exist, those of rounds 1..r-1 in order, and carries all of them;
\* the live context of a participant prompt never holds a summary; and a
\* session that returns has one summary for each of its rounds but the last,
\* and none for the last.
C20_OneSummaryPerNonFinalRound ==
  \A s \in Sessions :
    LET tr == transcript[s]
        sums == roundSummaries[s]
    IN /\ Len(SummaryMessages(tr)) = Len(sums)
       /\ \A i \in 1 .. Len(sums) :
            SummaryMessages(tr)[i] = Msg("Moderator", i, sums[i])
       /\ call[s].kind = "turn" =>
            \A x \in Range(call[s].prompt) :
              x.tag = "turn" => x.content \notin Range(sums)
       /\ (call[s].kind = "turn" /\ call[s].round >= 2) =>
            /\ Len(sums) = call[s].round - 1
            /\ SelectSeq(call[s].prompt, LAMBDA x : x.tag = "Round")
                 = [i \in 1 .. Len(sums) |-> Part("Round", i, "", sums[i])]
       /\ result[s].kind = "session" =>
            Len(sums) = ExecutedRounds(result[s].transcript) - 1

\* The messages the participants appended in round r: the messages of the
\* round that are not the round's summary.
ParticipantTurns(s, r) ==
  SelectSeq(transcript[s],
            LAMBDA m : m.round = r /\ m.content \notin Range(roundSummaries[s]))

\* The verbatim turns of a prompt.
QuotedTurns(prompt) == SelectSeq(prompt, LAMBDA x : x.tag = "turn")

\* A message as a prompt quotes it.
Quoted(m) == Part("turn", 0, m.speaker, m.content)

\* C21: the summary prompt of round r starts with the topic and quotes
\* exactly the turns the participants made in round r, in order: one per
\* participant, no opening, no turn of another round, no summary.
C21_SummaryPromptIsRoundOnly ==
  \A s \in Sessions :
    call[s].kind = "summary" =>
      LET turns == ParticipantTurns(s, call[s].round)
      IN /\ call[s].prompt[1] = Part("Topic", 0, "", 0)
         /\ Len(turns) = Len(personas[s])
         /\ QuotedTurns(call[s].prompt)
              = [i \in 1 .. Len(turns) |-> Quoted(turns[i])]

\* C22: the synthesis call is the last call of the session, made once, and
\* its prompt quotes every message of the transcript, in transcript order:
\* the opening, every participant turn and every round summary.
C22_SynthesisOverFullTranscript ==
  \A s \in Sessions :
    /\ call[s].kind = "synth" =>
         /\ QuotedTurns(call[s].prompt)
              = [i \in 1 .. Len(transcript[s]) |-> Quoted(transcript[s][i])]
         /\ issued[s] = Len(transcript[s]) + 1
    /\ result[s].kind = "session" =>
         result[s].provider_calls = Len(result[s].transcript) + 1

\* C24: the round count a running session was started with is an integer
\* of MIN_ROUNDS .. MAX_ROUNDS, whatever rounds value the request carried.
C24_RoundsWithinRange ==
  \A s \in Sessions :
    pc[s] = "inflight" => startRounds[s] \in MIN_ROUNDS .. MAX_ROUNDS

\* C30: the prompt of a participant's turn quotes the turn of every
\* participant that spoke before it in the round, in order, whatever the
\* participants are named.
C30_EarlierTurnsOfRoundInPrompt ==
  \A s \in Sessions :
    call[s].kind = "turn" =>
      LET turns == ParticipantTurns(s, call[s].round)
      IN /\ Len(turns) = call[s].idx - 1
         /\ QuotedTurns(call[s].prompt)
              = [i \in 1 .. Len(turns) |-> Quoted(turns[i])]

\* Prose, whitespace and code-fence markers; prose may hold braces.
NoiseTokens == {"fence", "json", "ws", "prose", "{", "}"}

\* The positions of a text where a JSON object {members} stands.
ObjectPositions(text) ==
  {i \in 2 .. Len(text) - 1 :
     text[i].t = "members" /\ text[i - 1].t = "{" /\ text[i + 1].t = "}"}

\* The text is one well-formed decision object with noise before and after.
EmbedsOneDecision(text) ==
  /\ Cardinality(ObjectPositions(text)) = 1
  /\ \A i \in 1 .. Len(text) :
       \/ text[i].t \in NoiseTokens
       \/ i \in ObjectPositions(text) /\ text[i].b = FullDecision

\* C23: from a text that is one well-formed decision object with any prose
\* and code-fence markers around it, extraction returns that object.
C23_ExtractorRoundTrip ==
  (extractOut.done /\ EmbedsOneDecision(extractIn)) =>
    /\ extractOut.raised = "none"
    /\ extractOut.synthesis = FullDecision

\* The provider override and the model override of the participant of the
\* call in flight; none for the Moderator's calls.
OverrideOf(s, field) ==
  IF call[s].kind = "turn" THEN PERSONAS[personas[s][call[s].idx]][field]
  ELSE IF field = "provider" THEN NoProvider ELSE NoModel

\* C25: every attempt of a call invokes the backend of the participant's
\* provider override when there is one and of the session's active provider
\* otherwise, with the participant's model override or else that provider's
\* default model; that provider has credentials, and a call refused for
\* missing credentials has made no attempt on any backend.
C25_CallsGoToResolvedProvider ==
  \A s \in Sessions :
    /\ call[s].kind # "none" =>
         LET expected == IF OverrideOf(s, "provider") # NoProvider
                         THEN OverrideOf(s, "provider")
                         ELSE getActiveProvider(config[s])
         IN /\ call[s].provider = expected
            /\ call[s].backend = expected
            /\ hasProvider(config[s], expected)
            /\ call[s].model = IF OverrideOf(s, "model") # NoModel
                               THEN OverrideOf(s, "model")
                               ELSE DefaultModel(expected)
    /\ result[s].error = NoApiKeyForProvider =>
         /\ call[s] = NoCall
         /\ issued[s] = providerCalls[s]
         /\ lastCall[s].result # "thrown"

\* The pinned participant's call is at its second attempt on openai while
\* the session's active provider is anthropic.
C25_Witness ==
  \E s \in Sessions :
    /\ call[s].kind = "turn" /\ call[s].attempt = 1
    /\ call[s].backend = "openai"
    /\ getActiveProvider(config[s]) = "anthropic"

\* C26: level 1.0 gets the instruction to challenge aggressively and the
\* highest temperature any level gets; level 0.2 gets the instruction to
\* seek common ground and a temperature of the lowest tier, below the
\* temperature of every level that gets another instruction.
C26_ExtremeLevels ==
  contrarianOut.done =>
    /\ contrarianIn = 100 =>
         /\ contrarianOut.instruction = "challenge aggressively"
         /\ \A l \in Levels :
              contrarianTemperature(l) <= contrarianOut.temperature
    /\ contrarianIn = 20 =>
         /\ contrarianOut.instruction = "common ground"
         /\ \A l \in Levels :
              contrarianInstruction(l) # "common ground" =>
                contrarianOut.temperature < contrarianTemperature(l)

\* The mapping has been applied to level 1.0.
C26_Witness ==
  /\ contrarianOut.done
  /\ contrarianIn = 100
  /\ contrarianOut.temperature = 1000

\* How contrarian an instruction is.
InstructionRank(instruction) ==
  CASE instruction = "challenge aggressively" -> 3
    [] instruction = "push back" -> 2
    [] instruction = "common ground" -> 1
    [] OTHER -> 0

\* C27: the temperature and the instruction of a participant's turn come
\* from that participant's contrarian level: the temperature is
\* 0.6 + 0.4 * level, within 0.6 .. 1.0, the instruction is the one of the
\* level's band (from 0.8, from 0.5, below 0.5); over the levels from 0 to 1
\* neither the temperature nor the rank of the instruction ever decreases
\* when the level increases.
C27_TemperatureAgreesWithInstruction ==
  /\ \A s \in Sessions :
       call[s].kind = "turn" =>
         LET level == PERSONAS[personas[s][call[s].idx]].contrarian_level
         IN /\ level \in Levels
            /\ call[s].temperature = 600 + 4 * level
            /\ call[s].temperature \in 600 .. 1000
            /\ call[s].instruction = "challenge aggressively" <=> level >= 80
            /\ call[s].instruction = "push back" <=>
                 (level >= 50 /\ level < 80)
            /\ call[s].instruction = "common ground" <=> level < 50
  /\ \A l \in Levels \ {100} :
       /\ contrarianTemperature(l) <= contrarianTemperature(l + 1)
       /\ InstructionRank(contrarianInstruction(l))
            <= InstructionRank(contrarianInstruction(l + 1))

\* The second participant, of level 0.2, is called in round 2 at temperature
\* 0.68 with the instruction to seek common ground, after the first, of
\* level 1.0.
C27_Witness ==
  \E s \in Sessions :
    /\ call[s].kind = "turn" /\ call[s].round = 2 /\ call[s].idx = 2
    /\ PERSONAS[personas[s][1]].contrarian_level = 100
    /\ call[s].temperature = 680
    /\ call[s].instruction = "common ground"

\* C28: every step leaves the transcript as it was or appends one message
\* to it; the Session returned carries the transcript as it stood, with the
\* decision record attached, and nothing of it changes afterwards.
C28_TranscriptAppendOnly ==
  [][\A s \in Sessions :
       /\ Len(transcript'[s]) \in {Len(transcript[s]), Len(transcript[s]) + 1}
       /\ SubSeq(transcript'[s], 1, Len(transcript[s])) = transcript[s]
       /\ (result[s].kind # "session" /\ result'[s].kind = "session") =>
            /\ result'[s].transcript = transcript[s]
            /\ transcript'[s] = transcript[s]
            /\ result[s].synthesis = EmptyObject
            /\ result'[s].synthesis # EmptyObject
       /\ result[s].kind = "session" =>
            /\ result'[s] = result[s]
            /\ transcript'[s] = transcript[s]]_vars

\* A session of three rounds has returned its transcript of nine messages.
C28_Witness ==
  \E s \in Sessions :
    /\ result[s].kind = "session"
    /\ result[s].transcript = transcript[s]
    /\ Len(transcript[s]) = 1 + 3 * 2 + 2
    /\ result[s].synthesis # EmptyObject

\* The calls of the schedule of P participants and R rounds: the opening,
\* P * R turns, R - 1 summaries and the synthesis.
ScheduleCalls(P, R) == P * R + R + 1

\* C29: a session started with P participants and R rounds issues at most
\* P * R + R + 1 generation calls, each of at most MAX_RETRIES + 1 attempts,
\* and, every attempt settling, it ends: it returns or throws.
C29_TerminatesWithinCallBound ==
  /\ [](\A s \in Sessions :
         pc[s] # "idle" =>
           /\ issued[s] <= ScheduleCalls(Len(personas[s]), startRounds[s])
           /\ call[s].attempt <= MAX_RETRIES)
  /\ \A s \in Sessions :
       (pc[s] = "inflight") ~> (pc[s] \in {"done", "failed"})

\* C31: a rounds override applies to its own request only: after any
\* sequence of earlier requests, a request for a built-in council that carries
\* no rounds value starts a session with the council's declared round count.
C31_RoundsOverrideIsPerRequest ==
  [][\A s \in Sessions, c \in ServerCouncils :
       Start(s, c, 0, DefaultConfig) /\ pc'[s] = "inflight" =>
         /\ startRounds'[s] = BUILTIN_COUNCILS[c].rounds
         /\ LiveRounds(s)' = BUILTIN_COUNCILS[c].rounds]_vars

\* C32: the provider_calls of a returned Session is the number of generation
\* calls that returned, which is the transcript length plus one for the
\* synthesis call; a call counts once however many of its attempts failed
\* and were retried, and the call in flight is not counted before it returns.
C32_ProviderCallsCountsReturnedCalls ==
  \A s \in Sessions :
    /\ result[s].kind = "session" =>
         /\ result[s].provider_calls = Len(result[s].transcript) + 1
         /\ result[s].provider_calls = issued[s]
    /\ pc[s] = "inflight" =>
         /\ providerCalls[s] = Len(transcript[s])
         /\ providerCalls[s] = issued[s] - 1

\* A session has returned after its synthesis call failed twice and
\* succeeded at the third attempt.
C32_Witness ==
  \E s \in Sessions :
    /\ result[s].kind = "session"
    /\ Len(lastCall[s].outcomes) = MAX_RETRIES + 1
    /\ lastCall[s].result = "ok"
    /\ result[s].provider_calls = Len(result[s].transcript) + 1

\* C33: once a session is cancelled, nothing of its stream reaches the page:
\* every step its runCouncil still takes leaves the view as it is, and while
\* the page is idle and no stream of an uncancelled session is still being
\* read, the view changes only by the reset with which the next session
\* starts.
C33_CancelledStreamIsSilent ==
  [][/\ \A r \in Runs :
          runs[r].aborted /\ runs'[r] # runs[r] => ui' = ui
     /\ /\ ui.state = "idle"
        /\ \A r \in Runs :
             runs[r].pos \in {"none", "returned"} \/ runs[r].aborted
        => \/ ui' = ui
           \/ \E r \in Runs :
                ui' = [NoView EXCEPT !.state = "running",
                                     !.abortRef = r]]_vars

\* A session was cancelled after reads of its stream had put messages on
\* the page, the rejection of its pending read has been handled, and the
\* page is idle with those messages.
C33_Witness ==
  \E r \in Runs :
    /\ runs[r].aborted /\ runs[r].pos = "returned"
    /\ ui.abortRef = r
    /\ ui.state = "idle"
    /\ ui.messages # << >>
    /\ ui.error = ""

\* The messages the frames of a stream describe: one for each speaker_start,
\* in order, whose content is the token frames sent after it and before the
\* next speaker_start or synthesis frame.
SentMessages(frames) ==
  LET starts == FramesOfType(frames, "speaker_start")
      stops == starts \cup FramesOfType(frames, "synthesis")
                      \cup {Len(frames) + 1}
      until(p) == CHOOSE q \in stops :
                    q > p /\ \A x \in stops : x > p => q <= x
  IN [n \in 1 .. Cardinality(starts) |->
        LET p == NthPosition(starts, n)
        IN [speaker |-> frames[p].speaker, round |-> frames[p].round,
            content |-> SelectSeq(SubSeq(frames, p + 1, until(p) - 1),
                                  LAMBDA f : f.type = "token")]]

\* The messages on the page, without their streaming flag.
ShownMessages ==
  [i \in 1 .. Len(ui.messages) |->
     [speaker |-> ui.messages[i].speaker, round |-> ui.messages[i].round,
      content |-> ui.messages[i].content]]

\* The number of frames of the stream of run r whose text the reads so far
\* have handed over to its end.
Delivered(r) ==
  LET body == ResponseBody(runs[r].frames)
  IN Cardinality({i \in 1 .. Len(body) - Len(runs[r].rest) :
                    body[i].part = "tail"})

\* C34: however the transport cuts the response into reads, the page shows
\* the frames the server sent, each applied once and in order: while the
\* stream of the current session is read, the messages are those of the
\* frames whose text has been handed over so far, and once the session is
\* done they are those of the whole stream, with the synthesis when the
\* stream has one.
C34_FramesAppliedOnceInOrder ==
  \A r \in Runs :
    ui.abortRef = r /\ ~runs[r].aborted =>
      /\ runs[r].pos = "read" =>
           ShownMessages =
             SentMessages(SubSeq(runs[r].frames, 1, Delivered(r)))
      /\ runs[r].pos = "returned" /\ ui.state = "done" =>
           /\ ShownMessages = SentMessages(runs[r].frames)
           /\ SynthesisChunk \in Range(runs[r].frames) =>
                ui.synthesis = "synthesis"

\* C35: when the stream of the current session holds an error event, the
\* page never shows the state done for it, and once its runCouncil has
\* returned the state is error and an error text is shown, although
\* "[DONE]" follows the error event on the stream.
C35_ErrorEventEndsInError ==
  \A r \in Runs :
    /\ ui.abortRef = r /\ ~runs[r].aborted
    /\ ErrorFrame \in Range(runs[r].frames)
    => /\ ui.state # "done"
       /\ runs[r].pos = "returned" => ui.state = "error" /\ ui.error # ""

====
